---------------------------- MODULE Spec2Model ----------------------------
(***************************************************************************)
(* A model of the API Runner core of tr_apisimulator: the dataset builder  *)
(* (ui/src/lib/dataset.ts), the mapping helpers (ui/src/lib/mapping.ts),   *)
(* the HubSpot upsert planner and executor (lib/hubspot.ts) as driven by   *)
(* the simulator page, the server-side proxy (app/api/proxy/route.ts) and   *)
(* the request builder (lib/request.ts).                                   *)
(*                                                                         *)
(* The specifications share the variables:                                 *)
(*   Spec         one run of buildDataset against an arbitrary remote,     *)
(*                then the dataset saved to and loaded from localStorage   *)
(*   SpecUpsert   the HubSpot simulator page: plan, execute, remote store  *)
(*   SpecProxy    one invocation of POST /api/proxy with its 30 s timer    *)
(*   SpecRequest  one request of the runner: profile, payload, outbound,   *)
(*                and the upsert requests built from the same profile      *)
(*   SpecMapping  diffProperties and mapExternalToHubspot on their inputs  *)
(*   SpecRunner   the runner page: execute, started from either run button *)
(***************************************************************************)
EXTENDS Integers, Sequences, FiniteSets, TLC

VARIABLES
    \* ---- buildDataset (dataset.ts) ----
    dsPc,        \* position of the async function
    dsOpt,       \* the options it was called with
    dsLimited,   \* const limited
    dsOut,       \* const out
    dsCalls,     \* every runProxy call issued so far, in order
    dsInFlight,  \* runProxy calls issued and not yet settled
    dsReplies,   \* the settled replies, in order (history)
    dsResult,    \* the value returned or the error thrown
    dsSaved,     \* localStorage 'datasets', as JSON.parse reads its text
    dsLoaded,    \* useState dataset after loadDataset
    \* ---- HubSpot simulator page (page.tsx) and the remote contact store ----
    upExt,       \* the external record in the input textarea (parsed)
    upsertPlan,  \* useState upsertPlan
    dryRun,      \* useState dryRun
    response,    \* useState response
    loading,     \* useState loading
    upExec,      \* the remote write in flight, if any
    upSearch,    \* the search reply of the last planning (history)
    remote,      \* the remote contact store (at most one contact)
    upLog,       \* history of the handlers run and the remote calls made
    \* ---- POST /api/proxy (route.ts) ----
    pxPc,        \* position of the handler
    pxReq,       \* the request being served
    pxTimer,     \* the setTimeout timer: "none", "armed", "fired", "cleared"
    pxAborted,   \* controller.signal.aborted
    pxClock,     \* wall clock, ms since the handler was entered
    pxRemote,    \* the remote's status, and how the outbound call ended
    pxOutbound,  \* outbound fetch calls made
    pxResult,    \* what the handler answered
    \* ---- one request of the runner (request.ts, then route.ts) ----
    rqPc,        \* position: "idle", "posted", "thrown", "forwarded"
    rqProfile,   \* the ApiProfile object held by the form
    rqGiven,     \* a copy of that object's value taken before any call (history)
    rqAuth,      \* what applyAuth returned inside buildProxyPayload
    rqAuthAgain, \* what a second applyAuth on the same profile returned
    rqPayload,   \* the ProxyRequest posted to /api/proxy
    rqOutbound,  \* the outbound call the proxy made for it
    rqHub,       \* the requests hubspot.ts builds when given the same profile
    \* ---- the pure helpers of mapping.ts, called on their own ----
    mpPc,        \* "idle", "called"
    mpArgs,      \* the arguments of the call
    mpResult,    \* what the call returned
    \* ---- RunnerPage: execute and its two run buttons ----
    rnStarted,   \* how many times execute has been started
    rnInFlight,  \* the runs whose runRequest has not settled
    rnLoading,   \* useState loading
    rnResponse   \* useState response, with the run it came from

dsVars == <<dsPc, dsOpt, dsLimited, dsOut, dsCalls, dsInFlight, dsReplies, dsResult,
            dsSaved, dsLoaded>>
upVars == <<upExt, upsertPlan, dryRun, response, loading, upExec, upSearch, remote, upLog>>
pxVars == <<pxPc, pxReq, pxTimer, pxAborted, pxClock, pxRemote, pxOutbound, pxResult>>
rqVars == <<rqPc, rqProfile, rqGiven, rqAuth, rqAuthAgain, rqPayload, rqOutbound, rqHub>>
mpVars == <<mpPc, mpArgs, mpResult>>
rnVars == <<rnStarted, rnInFlight, rnLoading, rnResponse>>
vars == <<dsVars, upVars, pxVars, rqVars, mpVars, rnVars>>

(***************************************************************************)
(* JSON values.  A JavaScript value is a tagged record; the payload of a   *)
(* primitive is its source text, so that numeric 1 and string "1" differ   *)
(* in the tag only.  An object keeps its members in insertion order.       *)
(***************************************************************************)
Undef == [kind |-> "undef"]
Null == [kind |-> "null"]
Num(s) == [kind |-> "num", v |-> s]
Str(s) == [kind |-> "str", v |-> s]
Bool(s) == [kind |-> "bool", v |-> s]
Obj(ms) == [kind |-> "obj", members |-> ms]
Arr(es) == [kind |-> "arr", elems |-> es]

\* JavaScript truthiness (the conditions `acc ?`, `id &&`, `!email`, `plan.id`)
Truthy(v) ==
    CASE v.kind \in {"undef", "null"} -> FALSE
      [] v.kind = "num" -> v.v # "0"
      [] v.kind = "str" -> v.v # ""
      [] v.kind = "bool" -> v.v = "true"
      [] OTHER -> TRUE

\* obj[key] on an object value: the last member written under that key
Member(o, key) ==
    LET idx == {i \in 1..Len(o.members) : o.members[i][1] = key}
    IN  IF idx = {} THEN Undef
        ELSE o.members[CHOOSE i \in idx : \A j \in idx : j <= i][2]

\* the position an index key names in an array (1-based here)
ArrayIndex == [k \in {"0", "1", "2"} |-> CASE k = "0" -> 1 [] k = "1" -> 2 [] OTHER -> 3]

\* acc[key] as JavaScript evaluates it on any truthy value
Index(acc, key) ==
    IF acc.kind = "obj" THEN Member(acc, key)
    ELSE IF acc.kind = "arr" /\ key \in DOMAIN ArrayIndex
    THEN (IF ArrayIndex[key] <= Len(acc.elems) THEN acc.elems[ArrayIndex[key]] ELSE Undef)
    ELSE Undef

\* the TypeError of reading a property of undefined or null
Raised == [kind |-> "raised"]

\* faulty variant: acc[key] without the `acc ?` guard
RECURSIVE getFromMutNoGuard(_, _)
getFromMutNoGuard(acc, keys) ==
    IF keys = <<>> \/ acc = Raised THEN acc
    ELSE getFromMutNoGuard(IF acc.kind \in {"undef", "null"} THEN Raised
                           ELSE Index(acc, Head(keys)), Tail(keys))

\* the reduce of mapping.ts line 9: (acc, key) => (acc ? acc[key] : undefined)
RECURSIVE getFrom(_, _)
getFrom(acc, keys) ==
    IF keys = <<>> THEN acc
    ELSE getFrom(IF Truthy(acc) THEN Index(acc, Head(keys)) ELSE Undef, Tail(keys))

\* mapping.ts get(obj, path); a path is the sequence path.split('.') yields,
\* the empty path being <<>>
get(obj, path) ==
    IF path = <<>> THEN obj ELSE getFrom(obj, path)

\* String(v), as template substitution stringifies an id
String(v) ==
    CASE v.kind \in {"num", "str", "bool"} -> v.v
      [] v.kind = "null" -> "null"
      [] v.kind = "undef" -> "undefined"
      [] v.kind = "obj" -> "[object Object]"
      [] OTHER -> "[array]"

(***************************************************************************)
(* dataset.ts                                                              *)
(***************************************************************************)
MaxListLen == 3
DefaultMaxItems == 20

\* A text is a sequence of tokens; "{ID}" is one token.
\* interpolate(template, {k: v}): every occurrence of {k} becomes v
interpolate(template, k, v) ==
    [i \in 1..Len(template) |->
        IF template[i] = "{" \o k \o "}" THEN v ELSE template[i]]

\* items.slice(0, max)
slice(items, max) ==
    LET n == Len(items)
        end == IF max < 0 THEN (IF n + max < 0 THEN 0 ELSE n + max)
               ELSE (IF max > n THEN n ELSE max)
    IN  SubSeq(items, 1, end)

\* The list items a remote can answer with
ItemA == Obj(<< <<"id", Num("7")>> >>)
ItemB == Obj(<< <<"id", Num("0")>> >>)
ItemC == Obj(<< <<"name", Str("c")>> >>)
Items == {ItemA, ItemB, ItemC}
ItemLists == UNION {[1..n -> Items] : n \in 0..MaxListLen}

\* The bodies of a successful list reply: no JSON body, an object without
\* the array field, one whose field is not an array, and one holding a list
ListBodies ==
    {Undef, Obj(<<>>), Obj(<< <<"results", Str("none")>> >>)}
        \cup {Obj(<< <<"results", Arr(l)>> >>) : l \in ItemLists}

\* A ProxyResponse (types: ok, status, statusText, data), as runProxy resolves it
Reply(ok, status, statusText, data) ==
    [ok |-> ok, status |-> status, statusText |-> statusText, data |-> data]

FailedReplies ==
    {Reply(FALSE, 404, "Not Found", Undef),
     Reply(FALSE, 500, "Internal Server Error", Obj(<< <<"message", Str("boom")>> >>)),
     Reply(FALSE, 0, "NetworkError", Undef)}

\* runProxy rejecting: fetch('/api/proxy') fails or res.json() cannot parse
Rejected == [ok |-> FALSE, status |-> -1, statusText |-> "rejected", data |-> Undef]

ListReplies ==
    {Reply(TRUE, 200, "OK", b) : b \in ListBodies} \cup FailedReplies \cup {Rejected}

DetailBody == Obj(<< <<"detail", Str("d")>> >>)

DetailReplies ==
    {Reply(TRUE, 200, "OK", DetailBody), Reply(TRUE, 204, "No Content", Undef)}
        \cup FailedReplies \cup {Rejected}

DetailPathTemplate == <<"/v1/users/", "{ID}", "/x/", "{ID}">>

\* a list longer than the default limit
LongList == [i \in 1..(DefaultMaxItems + 1) |-> IF i % 2 = 1 THEN ItemA ELSE ItemC]

\* the options of a call; hasMax tells whether maxItems is given
DsOptions ==
    {o \in [maxItems : {-1, 0, 1, 2, MaxListLen},
            hasMax : BOOLEAN,
            hasDetail : BOOLEAN,
            idPath : {<<>>, <<"id">>},
            idVarName : {"", "ID"}] :
        ~o.hasMax => o.maxItems = 0}

\* line 41: options?.maxItems ?? 20
maxOf(opt) == IF opt.hasMax THEN opt.maxItems ELSE DefaultMaxItems

\* faulty variant: the short-circuit return is never taken
noDetailMutNever(opt) == FALSE

\* line 44: !options?.detailProfile
noDetail(opt) == ~opt.hasDetail

\* the list replies offered to a call: the long list is answered only to a
\* call without detail profile, which bounds the detail calls of a run
ListRepliesFor(opt) ==
    ListReplies \cup
        (IF opt.hasDetail THEN {}
         ELSE {Reply(TRUE, 200, "OK", Obj(<< <<"results", Arr(LongList)>> >>))})

\* the error marker row of a failed detail call (dataset.ts line 57)
ErrorRow(dres) ==
    Obj(<< <<"__error", Bool("true")>>,
           <<"status", Num(ToString(dres.status))>>,
           <<"statusText", Str(dres.statusText)>> >>)

\* the row pushed for one settled detail call (lines 56-57)
RowOf(dres) ==
    IF dres.ok THEN dres.data ELSE ErrorRow(dres)

\* lines 50-54: the path of the detail request of item `it`
DetailPath(it, opt) ==
    LET id == IF opt.idPath # <<>> THEN get(it, opt.idPath) ELSE Undef
    IN  IF Truthy(id) /\ opt.idVarName # ""
        THEN interpolate(DetailPathTemplate, opt.idVarName, String(id))
        ELSE DetailPathTemplate

DetailCall(it, opt) == [kind |-> "detail", path |-> DetailPath(it, opt)]

\* faulty variant: the requests of all remaining items are started at once
nextCallsMutFanOut(limited, i, opt) ==
    [k \in 1..(Len(limited) - i + 1) |-> DetailCall(limited[i + k - 1], opt)]

\* lines 49-55: the loop body up to its await starts the request of item i
nextCalls(limited, i, opt) == <<DetailCall(limited[i], opt)>>

\* line 40: Array.isArray(get(data, arrayPath)) ? get(data, arrayPath) : []
ArrayAt(data, arrayPath) ==
    LET a == get(data, arrayPath)
    IN  IF a.kind = "arr" THEN a.elems ELSE <<>>

DsIdle ==
    /\ dsPc = "idle"
    /\ dsOpt = [maxItems |-> 0, hasMax |-> FALSE, hasDetail |-> FALSE,
                idPath |-> <<>>, idVarName |-> ""]
    /\ dsLimited = <<>>
    /\ dsOut = <<>>
    /\ dsCalls = <<>>
    /\ dsInFlight = 0
    /\ dsReplies = <<>>
    /\ dsResult = [kind |-> "none"]
    /\ dsSaved = Obj(<<>>)
    /\ dsLoaded = Undef

\* buildDataset is called: line 37 issues the list request
BuildStart ==
    /\ dsPc = "idle"
    /\ \E opt \in DsOptions : dsOpt' = opt
    /\ dsPc' = "awaitList"
    /\ dsCalls' = <<[kind |-> "list", path |-> <<"/list">>]>>
    /\ dsInFlight' = 1
    /\ UNCHANGED <<dsLimited, dsOut, dsReplies, dsResult, dsSaved, dsLoaded>>

\* faulty variant: a failed list call is treated as an empty list
AfterListMutNoThrow(res, opt) ==
    LET limited == slice(ArrayAt(res.data, <<"results">>), maxOf(opt))
    IN  IF res = Rejected
        THEN [pc |-> "thrown", limited |-> <<>>, calls |-> <<>>,
              result |-> [kind |-> "error", message |-> <<"fetch failed">>]]
        ELSE IF get(res.data, <<"results">>) = Raised
        THEN [pc |-> "thrown", limited |-> <<>>, calls |-> <<>>,
              result |-> [kind |-> "error", message |-> <<"TypeError">>]]
        ELSE IF noDetail(opt) \/ limited = <<>>
        THEN [pc |-> "returned", limited |-> limited, calls |-> <<>>,
              result |-> [kind |-> "dataset",
                          rows |-> IF noDetail(opt) THEN limited ELSE <<>>]]
        ELSE [pc |-> "awaitDetail", limited |-> limited,
              calls |-> nextCalls(limited, 1, opt),
              result |-> [kind |-> "none"]]

\* the outcome of lines 37-46 and of the loop head for a settled list call;
\* a TypeError out of get would end the call
AfterList(res, opt) ==
    LET limited == slice(ArrayAt(res.data, <<"results">>), maxOf(opt))
    IN  IF res = Rejected
        THEN [pc |-> "thrown", limited |-> <<>>, calls |-> <<>>,
              result |-> [kind |-> "error", message |-> <<"fetch failed">>]]
        ELSE IF ~res.ok
        THEN [pc |-> "thrown", limited |-> <<>>, calls |-> <<>>,
              result |-> [kind |-> "error",
                          message |-> <<"List request failed: ",
                                        ToString(res.status), " ", res.statusText>>]]
        ELSE IF get(res.data, <<"results">>) = Raised
        THEN [pc |-> "thrown", limited |-> <<>>, calls |-> <<>>,
              result |-> [kind |-> "error", message |-> <<"TypeError">>]]
        ELSE IF noDetail(opt) \/ limited = <<>>
        THEN [pc |-> "returned", limited |-> limited, calls |-> <<>>,
              result |-> [kind |-> "dataset",
                          rows |-> IF noDetail(opt) THEN limited ELSE <<>>]]
        ELSE [pc |-> "awaitDetail", limited |-> limited,
              calls |-> nextCalls(limited, 1, opt),
              result |-> [kind |-> "none"]]

\* the list call settles: lines 38-46, and the first loop iteration up to
\* its await (lines 48-55)
ListSettles ==
    /\ dsPc = "awaitList"
    /\ \E res \in ListRepliesFor(dsOpt) :
        LET a == AfterList(res, dsOpt)
        IN  /\ dsPc' = a.pc
            /\ dsLimited' = a.limited
            /\ dsCalls' = dsCalls \o a.calls
            /\ dsInFlight' = dsInFlight - 1 + Len(a.calls)
            /\ dsReplies' = <<res>>
            /\ dsResult' = a.result
    /\ UNCHANGED <<dsOpt, dsOut, dsSaved, dsLoaded>>

\* faulty variant: a failed detail call ends the loop
AfterDetailMutAbort(dres, out, i, limited, opt) ==
    IF dres = Rejected
    THEN [pc |-> "thrown", out |-> out, calls |-> <<>>,
          result |-> [kind |-> "error", message |-> <<"fetch failed">>]]
    ELSE IF ~dres.ok
    THEN [pc |-> "returned", out |-> Append(out, RowOf(dres)), calls |-> <<>>,
          result |-> [kind |-> "dataset", rows |-> Append(out, RowOf(dres))]]
    ELSE IF i < Len(limited)
    THEN [pc |-> "awaitDetail", out |-> Append(out, RowOf(dres)),
          calls |-> nextCalls(limited, i + 1, opt),
          result |-> [kind |-> "none"]]
    ELSE [pc |-> "returned", out |-> Append(out, RowOf(dres)), calls |-> <<>>,
          result |-> [kind |-> "dataset", rows |-> Append(out, RowOf(dres))]]

\* the outcome of lines 55-59 for a settled detail call of item i
AfterDetail(dres, out, i, limited, opt) ==
    IF dres = Rejected
    THEN [pc |-> "thrown", out |-> out, calls |-> <<>>,
          result |-> [kind |-> "error", message |-> <<"fetch failed">>]]
    ELSE IF i < Len(limited)
    THEN [pc |-> "awaitDetail", out |-> Append(out, RowOf(dres)),
          calls |-> nextCalls(limited, i + 1, opt),
          result |-> [kind |-> "none"]]
    ELSE [pc |-> "returned", out |-> Append(out, RowOf(dres)), calls |-> <<>>,
          result |-> [kind |-> "dataset", rows |-> Append(out, RowOf(dres))]]

\* a detail call settles: lines 56-57, then the next iteration up to its
\* await, or the return of line 59
DetailSettles ==
    /\ dsPc = "awaitDetail"
    /\ \E dres \in DetailReplies :
        LET a == AfterDetail(dres, dsOut, Len(dsOut) + 1, dsLimited, dsOpt)
        IN  /\ dsPc' = a.pc
            /\ dsOut' = a.out
            /\ dsCalls' = dsCalls \o a.calls
            /\ dsInFlight' = dsInFlight - 1 + Len(a.calls)
            /\ dsReplies' = Append(dsReplies, dres)
            /\ dsResult' = a.result
    /\ UNCHANGED <<dsOpt, dsLimited, dsSaved, dsLoaded>>

(***************************************************************************)
(* mapping.ts: mapExternalToHubspot and diffProperties.  A properties      *)
(* mapping (Record<string, any>) is a function from its keys to values.    *)
(***************************************************************************)
NoProps == <<>>

\* current?.[k]
PropAt(p, k) == IF k \in DOMAIN p THEN p[k] ELSE Undef

\* JSON.stringify(v): the text as a sequence of tokens; <<>> is the result
\* undefined (no text), which JSON.stringify returns for undefined
RECURSIVE JSONstringify(_)
RECURSIVE StringifyMembers(_)
RECURSIVE StringifyElems(_)
StringifyMembers(ms) ==
    IF ms = <<>> THEN <<>>
    ELSE LET t == JSONstringify(Head(ms)[2])
         IN  (IF t = <<>> THEN <<>> ELSE <<"\"", Head(ms)[1], "\"", ":">> \o t \o <<",">>)
                 \o StringifyMembers(Tail(ms))

StringifyElems(es) ==
    IF es = <<>> THEN <<>>
    ELSE LET t == JSONstringify(Head(es))
         IN  (IF t = <<>> THEN <<"null">> ELSE t) \o <<",">> \o StringifyElems(Tail(es))

JSONstringify(v) ==
    CASE v.kind = "undef" -> <<>>
      [] v.kind = "null" -> <<"null">>
      [] v.kind \in {"num", "bool"} -> <<v.v>>
      [] v.kind = "str" -> <<"\"", v.v, "\"">>
      [] v.kind = "obj" -> <<"{">> \o StringifyMembers(v.members) \o <<"}">>
      [] OTHER -> <<"[">> \o StringifyElems(v.elems) \o <<"]">>

\* faulty variant: every key is reported, changed or not
diffPropertiesMutAll(current, next) ==
    [k \in (DOMAIN current \cup DOMAIN next) |->
        [from |-> PropAt(current, k), to |-> PropAt(next, k)]]

\* mapping.ts lines 22-33
diffProperties(current, next) ==
    [k \in {x \in (DOMAIN current \cup DOMAIN next) :
                JSONstringify(PropAt(current, x)) # JSONstringify(PropAt(next, x))} |->
        [from |-> PropAt(current, k), to |-> PropAt(next, k)]]

\* the transforms a rule can carry: none, String, and v => v || undefined
Transforms == {"none", "String", "orUndefined"}

\* r.transform(raw)
applyTransform(t, raw) ==
    CASE t = "String" -> Str(String(raw))
      [] t = "orUndefined" -> (IF Truthy(raw) THEN raw ELSE Undef)
      [] OTHER -> raw

\* lines 15-16: the value a rule yields for a row
ruleValue(r, externalRow) ==
    LET raw == get(externalRow, r.from)
    IN  IF r.transform # "none" THEN applyTransform(r.transform, raw) ELSE raw

\* faulty variant: an undefined value is written as null
mapExternalToHubspotMutPlaceholder(rules, externalRow) ==
    LET keys == {rules[i].to : i \in 1..Len(rules)}
        last(k) == CHOOSE i \in 1..Len(rules) :
                        rules[i].to = k /\ \A j \in 1..Len(rules) : rules[j].to = k => j <= i
    IN  [k \in keys |->
            IF ruleValue(rules[last(k)], externalRow) = Undef THEN Null
            ELSE ruleValue(rules[last(k)], externalRow)]

\* mapping.ts lines 12-20: the last rule writing a key wins, undefined is
\* never written
mapExternalToHubspot(rules, externalRow) ==
    LET hit(k) == {i \in 1..Len(rules) :
                      rules[i].to = k /\ ruleValue(rules[i], externalRow) # Undef}
        keys == {rules[i].to : i \in 1..Len(rules)}
        last(k) == CHOOSE i \in hit(k) : \A j \in hit(k) : j <= i
    IN  [k \in {x \in keys : hit(x) # {}} |-> ruleValue(rules[last(k)], externalRow)]

(***************************************************************************)
(* hubspot.ts: the planner and the executor                                *)
(***************************************************************************)
\* UpsertPlan; hasEmail/hasId/hasDiff tell the optional fields that are set
Plan(action, hasEmail, matchEmail, hasId, id, properties, hasDiff, diff) ==
    [action |-> action, hasEmail |-> hasEmail, matchEmail |-> matchEmail,
     hasId |-> hasId, id |-> id, properties |-> properties,
     hasDiff |-> hasDiff, diff |-> diff]

NoPlan == Plan("none", FALSE, Undef, FALSE, Undef, NoProps, FALSE, NoProps)

\* The body of a search reply: {total, results: [{id, properties}]}, with
\* the fields a remote may leave out
SearchData(hasBody, total, hasResults, results) ==
    [hasBody |-> hasBody, total |-> total, hasResults |-> hasResults, results |-> results]

NoSearchData == SearchData(FALSE, 0, FALSE, <<>>)

Match(id, hasProps, properties) ==
    [id |-> id, hasProps |-> hasProps, properties |-> properties]

Thrown == Plan("thrown", FALSE, Undef, FALSE, Undef, NoProps, FALSE, NoProps)

\* faulty variant: only an absent email skips the search
needsSearchMutUndefinedOnly(properties) ==
    PropAt(properties, "email") # Undef

\* hubspot.ts lines 39-40: a search is made only for a truthy email
needsSearch(properties) ==
    Truthy(PropAt(properties, "email"))

\* faulty variant: matchEmail is left out
createWithKeyMutNoKey(email, properties) ==
    Plan("create", FALSE, Undef, FALSE, Undef, properties, FALSE, NoProps)

\* hubspot.ts line 50: the plan when the search matched nothing
createWithKey(email, properties) ==
    Plan("create", TRUE, email, FALSE, Undef, properties, FALSE, NoProps)

\* hubspot.ts lines 38-51; Thrown stands for the TypeError of first.id when
\* results holds no first element
planOf(res, properties) ==
    LET email == PropAt(properties, "email")
    IN  IF ~needsSearch(properties)
        THEN Plan("create", FALSE, Undef, FALSE, Undef, properties, FALSE, NoProps)
        ELSE IF res.ok /\ res.data.hasBody /\ res.data.total > 0
        THEN IF ~res.data.hasResults \/ res.data.results = <<>>
             THEN Thrown
             ELSE LET first == res.data.results[1]
                      currentProps == IF first.hasProps THEN first.properties ELSE NoProps
                      diff == diffProperties(currentProps, properties)
                  IN  Plan(IF DOMAIN diff # {} THEN "update" ELSE "noop",
                           FALSE, Undef, TRUE, first.id, properties, TRUE, diff)
        ELSE createWithKey(email, properties)

\* faulty variant: the action is tested before dryRun
executeBranchMutDryCreates(plan, dry) ==
    IF plan.action = "create" THEN "create"
    ELSE IF dry THEN "dryrun"
    ELSE IF plan.action = "update" /\ Truthy(plan.id) THEN "update"
    ELSE "noop"

\* hubspot.ts lines 53-86: the branch taken
executeBranch(plan, dry) ==
    IF dry THEN "dryrun"
    ELSE IF plan.action = "create" THEN "create"
    ELSE IF plan.action = "update" /\ Truthy(plan.id) THEN "update"
    ELSE "noop"

\* the synthetic ProxyResponse of the dry-run and noop branches
Synthetic(statusText, plan) ==
    [ok |-> TRUE, status |-> 200, statusText |-> statusText, headers |-> {},
     data |-> [kind |-> "plan", plan |-> plan], durationMs |-> 0]

\* the ProxyRequest of the create and update branches (lines 67-76)
WriteRequest(branch, plan) ==
    IF branch = "create"
    THEN [method |-> "POST", path |-> <<"/crm/v3/objects/contacts">>,
          body |-> plan.properties]
    ELSE [method |-> "PATCH", path |-> <<"/crm/v3/objects/contacts/", String(plan.id)>>,
          body |-> plan.properties]

NoRequest == [method |-> "none", path |-> <<>>, body |-> NoProps]

(***************************************************************************)
(* The remote contact store and the replies it can give                    *)
(***************************************************************************)
Contact(exists, id, properties) ==
    [exists |-> exists, id |-> id, properties |-> properties]

NoContact == Contact(FALSE, "", NoProps)

TheEmail == Str("a@b.com")
TheId == "42"

RemoteFirstnames == {Undef, Str("Old"), Str("New")}

\* a properties mapping from the pairs whose value is defined
PropsOf(pairs) ==
    LET idx(k) == CHOOSE i \in 1..Len(pairs) : pairs[i][1] = k
    IN  [k \in {pairs[i][1] : i \in {j \in 1..Len(pairs) : pairs[j][2] # Undef}} |->
            pairs[idx(k)][2]]

RemoteInit ==
    {NoContact} \cup
    {Contact(TRUE, TheId,
             PropsOf(<< <<"email", TheEmail>>, <<"firstname", f>>, <<"hs_object_id", h>> >>)) :
        f \in RemoteFirstnames, h \in {Undef, Str(TheId)}}

\* hubspot.ts line 31: the properties the search asks for
SearchProperties == {"email", "firstname", "lastname", "hs_object_id"}

Restrict(p, keys) == [k \in (DOMAIN p \cap keys) |-> p[k]]

SearchReply(ok, status, statusText, data) ==
    [ok |-> ok, status |-> status, statusText |-> statusText, data |-> data,
     rejected |-> FALSE]

SearchRejected == [ok |-> FALSE, status |-> -1, statusText |-> "rejected",
                   data |-> NoSearchData, rejected |-> TRUE]

NoSearch == [ok |-> FALSE, status |-> -1, statusText |-> "none",
             data |-> NoSearchData, rejected |-> FALSE]

\* the reply of a remote that keeps to the search contract
\* {total, results: [{id, properties}]}
ContractReply(store, email) ==
    IF store.exists /\ PropAt(store.properties, "email") = email
    THEN SearchReply(TRUE, 200, "OK",
            SearchData(TRUE, 1, TRUE,
                <<Match(Str(store.id), TRUE,
                        Restrict(store.properties, SearchProperties))>>))
    ELSE SearchReply(TRUE, 200, "OK", SearchData(TRUE, 0, TRUE, <<>>))

\* the replies that leave out a field of the contract
LooseReplies(store, email) ==
    IF store.exists /\ PropAt(store.properties, "email") = email
    THEN {SearchReply(TRUE, 200, "OK",
              SearchData(TRUE, 1, TRUE,
                  <<Match(Undef, TRUE, Restrict(store.properties, SearchProperties))>>)),
          SearchReply(TRUE, 200, "OK",
              SearchData(TRUE, 1, TRUE, <<Match(Str(store.id), FALSE, NoProps)>>)),
          SearchReply(TRUE, 200, "OK", SearchData(TRUE, 1, FALSE, <<>>))}
    ELSE {SearchReply(TRUE, 200, "OK", SearchData(TRUE, 0, FALSE, <<>>))}

SearchFailures ==
    {SearchReply(FALSE, 401, "Unauthorized", SearchData(TRUE, 0, FALSE, <<>>)),
     SearchReply(FALSE, 0, "NetworkError", NoSearchData),
     SearchReply(TRUE, 200, "OK", NoSearchData)}

SearchReplies(store, email) ==
    {ContractReply(store, email)} \cup LooseReplies(store, email)
        \cup SearchFailures \cup {SearchRejected}

(***************************************************************************)
(* hubspot-simulator/page.tsx                                              *)
(***************************************************************************)
ExtEmails == {Undef, Str(""), TheEmail}
ExtFirstNames == {Undef, Str("Old"), Str("New")}

ExtRow(e, f) ==
    Obj((IF e = Undef THEN <<>> ELSE << <<"email", e>> >>)
            \o (IF f = Undef THEN <<>> ELSE << <<"firstName", f>> >>))

\* externalJson that JSON.parse rejects
InvalidJson == [kind |-> "invalid"]

ExtRows == {ExtRow(e, f) : e \in ExtEmails, f \in ExtFirstNames} \cup {InvalidJson}

\* page.tsx lines 63-68, with the default paths of lines 25-28
Rules ==
    <<[from |-> <<"email">>, to |-> "email", transform |-> "none"],
      [from |-> <<"firstName">>, to |-> "firstname", transform |-> "none"],
      [from |-> <<"lastName">>, to |-> "lastname", transform |-> "none"],
      [from |-> <<"id">>, to |-> "ext_id", transform |-> "none"]>>

NoResponse ==
    [ok |-> FALSE, status |-> -1, statusText |-> "", headers |-> {},
     data |-> [kind |-> "none"], durationMs |-> 0]

NoExec == [active |-> FALSE, branch |-> "none", request |-> NoRequest, fresh |-> FALSE]

\* The external record is fixed for a session (the user fills the textarea
\* before planning).
\* history: the last handler run, what it was given and the calls it made;
\* sync: the remote last merged a PATCH of syncProps; fresh: upsertPlan was
\* planned from a contract reply of that remote for those properties;
\* spent: a remote write has been issued for upsertPlan since it was planned
Log(event, branch, calls, dry, sync, syncProps, fresh, spent) ==
    [event |-> event, branch |-> branch, calls |-> calls, dry |-> dry,
     sync |-> sync, syncProps |-> syncProps, fresh |-> fresh, spent |-> spent]

UpIdle ==
    /\ upExt = ExtRow(Undef, Undef)
    /\ upsertPlan = NoPlan
    /\ dryRun = TRUE
    /\ response = NoResponse
    /\ loading = FALSE
    /\ upExec = NoExec
    /\ upSearch = NoSearch
    /\ remote = NoContact
    /\ upLog = Log("none", "none", 0, TRUE, FALSE, NoProps, FALSE, FALSE)

\* the dry-run checkbox (page.tsx line 93)
ToggleDryRun ==
    /\ dryRun' = ~dryRun
    /\ UNCHANGED <<upExt, upsertPlan, response, loading, upExec, upSearch, remote, upLog>>

\* the state planUpsert (page.tsx lines 60-75) leaves for a search reply res
\* (NoSearch when no search is made); a throw is caught and alerts
AfterPlan(res, properties) ==
    LET plan == planOf(res, properties)
        failed == res.rejected \/ plan = Thrown
    IN  [plan |-> IF failed THEN upsertPlan ELSE plan,
         log |-> Log(IF failed THEN "planFailed" ELSE "plan", "none",
                     IF res = NoSearch THEN 0 ELSE 1, dryRun,
                     upLog.sync, upLog.syncProps,
                     /\ ~failed
                     /\ upLog.sync
                     /\ properties = upLog.syncProps
                     /\ res = ContractReply(remote, PropAt(properties, "email")),
                     failed /\ upLog.spent)]

\* "Plan Upsert" is clicked: planUpsert, with its search call
PlanUpsert ==
    /\ IF upExt = InvalidJson
       THEN /\ upLog' = [upLog EXCEPT !.event = "planFailed", !.calls = 0]
            /\ upSearch' = NoSearch
            /\ UNCHANGED upsertPlan
       ELSE LET properties == mapExternalToHubspot(Rules, upExt)
                email == PropAt(properties, "email")
            IN  \E res \in (IF needsSearch(properties) THEN SearchReplies(remote, email)
                            ELSE {NoSearch}) :
                    /\ upsertPlan' = AfterPlan(res, properties).plan
                    /\ upLog' = AfterPlan(res, properties).log
                    /\ upSearch' = res
    /\ UNCHANGED <<upExt, dryRun, response, loading, upExec, remote>>

\* "Execute Upsert" is clicked (enabled when a plan is set and nothing is
\* loading): executeUpsert, lines 77-86.  The dry-run and noop branches
\* answer at once; create and update leave a remote write in flight.
ExecuteUpsert ==
    /\ upsertPlan # NoPlan
    /\ ~loading
    /\ LET branch == executeBranch(upsertPlan, dryRun)
           net == branch \in {"create", "update"}
       IN  /\ loading' = net
           /\ upExec' = IF net
                        THEN [active |-> TRUE, branch |-> branch,
                              request |-> WriteRequest(branch, upsertPlan),
                              fresh |-> upLog.fresh]
                        ELSE NoExec
           /\ response' = IF net THEN response
                          ELSE Synthetic(IF branch = "dryrun" THEN "DryRun" ELSE "Noop",
                                         upsertPlan)
           /\ upLog' = [upLog EXCEPT !.event = "exec", !.branch = branch,
                                     !.calls = IF net THEN 1 ELSE 0,
                                     !.dry = dryRun,
                                     !.spent = @ \/ net]
    /\ UNCHANGED <<upExt, upsertPlan, dryRun, upSearch, remote>>

\* the remote's answers to a write
WriteOk(status, statusText) ==
    [ok |-> TRUE, status |-> status, statusText |-> statusText, headers |-> {},
     data |-> [kind |-> "remote"], durationMs |-> 1]

WriteFailed(status, statusText) ==
    [ok |-> FALSE, status |-> status, statusText |-> statusText, headers |-> {},
     data |-> [kind |-> "none"], durationMs |-> 1]

\* the store after a successful write: POST creates the contact (the remote
\* may add its own hs_object_id), PATCH merges the sent properties
applyWrite(store, req, addId) ==
    IF req.method = "POST"
    THEN Contact(TRUE, TheId,
                 IF addId THEN req.body @@ ("hs_object_id" :> Str(TheId)) ELSE req.body)
    ELSE Contact(TRUE, store.id, req.body @@ store.properties)

\* whether the remote accepts the write: a POST when no contact has that
\* email, a PATCH when the contact addressed exists
accepts(store, req) ==
    IF req.method = "POST"
    THEN ~(store.exists /\ PropAt(store.properties, "email") = PropAt(req.body, "email"))
    ELSE store.exists /\ req.path = <<"/crm/v3/objects/contacts/", store.id>>

\* the write in flight succeeds: the remote applies it and answers 2xx
WriteSucceeds ==
    /\ upExec.active
    /\ accepts(remote, upExec.request)
    /\ \E addId \in BOOLEAN : remote' = applyWrite(remote, upExec.request, addId)
    /\ response' = IF upExec.branch = "create" THEN WriteOk(201, "Created")
                   ELSE WriteOk(200, "OK")
    /\ loading' = FALSE
    /\ upExec' = NoExec
    /\ upLog' = [upLog EXCEPT !.event = "settled",
                              !.sync = (upExec.branch = "update"),
                              !.syncProps = IF upExec.branch = "update"
                                            THEN upExec.request.body ELSE NoProps,
                              !.fresh = FALSE]
    /\ UNCHANGED <<upExt, upsertPlan, dryRun, upSearch>>

\* the write in flight fails: the proxy answers ok=false, or runProxy rejects
\* (then setResponse is skipped and only `finally` runs)
WriteFails ==
    /\ upExec.active
    /\ \E r \in {WriteFailed(409, "Conflict"), WriteFailed(0, "NetworkError"), NoResponse} :
        response' = IF r = NoResponse THEN response ELSE r
    /\ loading' = FALSE
    /\ upExec' = NoExec
    /\ upLog' = [upLog EXCEPT !.event = "settled"]
    /\ UNCHANGED <<upExt, upsertPlan, dryRun, upSearch, remote>>

(***************************************************************************)
(* app/api/proxy/route.ts: POST                                            *)
(***************************************************************************)
TIMEOUT_MS == 30000
MaxTicks == 5
TickMs == TIMEOUT_MS \div 3
MaxClock == MaxTicks * TickMs

\* header names are character sequences, so that toLowerCase and
\* startsWith are computed
HostName == <<"H", "o", "s", "t">>
HostMixed == <<"h", "O", "S", "T", "-", "x">>
KeyName == <<"X", "-", "K">>

\* k.toLowerCase(), over the letters of the names used
toLowerCase(name) ==
    LET lower == [c \in {"A", "H", "K", "O", "S", "T", "X"} |->
                    CASE c = "A" -> "a" [] c = "H" -> "h" [] c = "K" -> "k"
                      [] c = "O" -> "o" [] c = "S" -> "s" [] c = "T" -> "t"
                      [] OTHER -> "x"]
    IN  [i \in 1..Len(name) |-> IF name[i] \in DOMAIN lower THEN lower[name[i]] ELSE name[i]]

startsWith(name, prefix) ==
    Len(name) >= Len(prefix) /\ SubSeq(name, 1, Len(prefix)) = prefix

\* faulty variant: the name is compared without lower-casing it
forwardHeadersMutCaseSensitive(headers) ==
    [k \in {n \in DOMAIN headers : ~startsWith(n, <<"h", "o", "s", "t">>)} |->
        headers[k]]

\* route.ts lines 22-29
forwardHeaders(headers) ==
    [k \in {n \in DOMAIN headers : ~startsWith(toLowerCase(n), <<"h", "o", "s", "t">>)} |->
        headers[k]]

HeaderMaps ==
    {<<>>, (HostName :> "evil"), (KeyName :> "k1"),
     (HostMixed :> "evil") @@ (KeyName :> "k1"),
     (<<"X", "-", "h", "o", "s", "t">> :> "x1") @@ (HostName :> "evil"),
     (<<"H", "o">> :> "s1") @@ (KeyName :> "k1") @@ (HostMixed :> "evil")}

\* the request body of the handler: text that req.json() rejects, JSON null,
\* or a ProxyRequest
PxRequests ==
    {[kind |-> k, method |-> "GET", headers |-> <<>>, hasBody |-> FALSE] :
        k \in {"malformed", "null"}}
    \cup [kind : {"request"}, method : {"GET", "HEAD", "POST"},
          headers : HeaderMaps, hasBody : BOOLEAN]

NoPxRequest == [kind |-> "none", method |-> "GET", headers |-> <<>>, hasBody |-> FALSE]

\* faulty variant: only GET drops the body
outboundBodyMutGetOnly(req) ==
    IF req.method = "GET" THEN "undefined"
    ELSE IF req.hasBody THEN "json" ELSE "undefined"

\* route.ts line 34: the body of the outbound call
outboundBody(req) ==
    IF req.method \in {"GET", "HEAD"} THEN "undefined"
    ELSE IF req.hasBody THEN "json" ELSE "undefined"

\* the texts a remote body can carry: JSON text, other text, nothing
JsonValues == {DetailBody, Num("1"), Null}
BodyTexts == {JSONstringify(v) : v \in JsonValues} \cup {<<"hello">>, <<>>}

\* JSON.parse(text) over the texts above: the value whose text it is
Parses(text) == \E v \in JsonValues : JSONstringify(v) = text
JSONparse(text) == CHOOSE v \in JsonValues : JSONstringify(v) = text

NoPayload ==
    [ok |-> FALSE, status |-> -1, statusText |-> "", headers |-> {}, data |-> Undef,
     hasRawText |-> FALSE, rawText |-> <<>>, hasDuration |-> FALSE]

\* what the handler answers: the transport status and the JSON payload;
\* threw tells an exception escaping the handler
Answer(transport, threw, payload) ==
    [transport |-> transport, threw |-> threw, payload |-> payload]

NoAnswer == Answer(0, FALSE, NoPayload)

\* faulty variant: the error escapes the handler
ErrorResponseMutThrow(name, message) ==
    Answer(500, TRUE, NoPayload)

\* route.ts lines 60-70: the catch block
ErrorResponse(name, message) ==
    Answer(200, FALSE,
        [ok |-> FALSE, status |-> 0, statusText |-> "NetworkError", headers |-> {},
         data |-> Undef, hasRawText |-> TRUE,
         rawText |-> IF name = "AbortError" THEN <<"Request timed out">>
                     ELSE IF message # "" THEN <<message>> ELSE <<"Unexpected error">>,
         hasDuration |-> FALSE])

StatusTexts == [s \in {200, 404, 500} |->
    CASE s = 200 -> "OK" [] s = 404 -> "Not Found" [] OTHER -> "Internal Server Error"]

\* route.ts lines 40-59: the payload of a remote reply read to its end
RemoteResponse(status, text) ==
    Answer(200, FALSE,
        [ok |-> (status >= 200 /\ status <= 299), status |-> status,
         statusText |-> StatusTexts[status], headers |-> {"content-type"},
         data |-> IF Parses(text) THEN JSONparse(text) ELSE Undef,
         hasRawText |-> ~Parses(text),
         rawText |-> IF Parses(text) THEN <<>> ELSE text,
         hasDuration |-> TRUE])

\* faulty variant: a call that failed is made once more
callsAfterMutRetry(outbound, failed) ==
    IF failed THEN outbound \o outbound ELSE outbound

\* route.ts lines 38-70: neither the reply path nor the catch block calls
\* fetch again, whatever the outcome
callsAfter(outbound, failed) == outbound

PxIdle ==
    /\ pxPc = "idle"
    /\ pxReq = NoPxRequest
    /\ pxTimer = "none"
    /\ pxAborted = FALSE
    /\ pxClock = 0
    /\ pxRemote = [status |-> 0, failure |-> "none", finished |-> FALSE]
    /\ pxOutbound = <<>>
    /\ pxResult = NoAnswer

\* the handler is entered: lines 15-36 up to `await fetch`.  A body that
\* does not parse throws at line 16, JSON null throws at line 23 (the timer
\* of line 19 is then already set); otherwise the outbound call is made.
PxEnter ==
    /\ pxPc = "idle"
    /\ \E req \in PxRequests :
        /\ pxReq' = req
        /\ pxTimer' = IF req.kind = "malformed" THEN "none" ELSE "armed"
        /\ pxPc' = IF req.kind = "request" THEN "fetching" ELSE "done"
        /\ pxOutbound' = IF req.kind = "request"
                         THEN <<[method |-> req.method,
                                 headers |-> forwardHeaders(req.headers),
                                 body |-> outboundBody(req)]>>
                         ELSE <<>>
        /\ pxResult' = CASE req.kind = "malformed" ->
                                ErrorResponse("SyntaxError", "Unexpected token")
                         [] req.kind = "null" ->
                                ErrorResponse("TypeError", "Cannot read properties of null")
                         [] OTHER -> NoAnswer
    /\ UNCHANGED <<pxAborted, pxClock, pxRemote>>

\* the remote's status line and headers arrive: fetch resolves, line 38
\* clears the timer, and the handler awaits res.text()
HeadersArrive ==
    /\ pxPc = "fetching"
    /\ \E status \in DOMAIN StatusTexts : pxRemote' = [pxRemote EXCEPT !.status = status]
    /\ pxTimer' = "cleared"
    /\ pxPc' = "reading"
    /\ UNCHANGED <<pxReq, pxAborted, pxClock, pxOutbound, pxResult>>

\* the connection fails before the headers: fetch rejects, the catch block
\* answers (the timer is left armed)
ConnectFails ==
    /\ pxPc = "fetching"
    /\ pxRemote' = [pxRemote EXCEPT !.failure = "connect"]
    /\ pxPc' = "done"
    /\ pxResult' = ErrorResponse("TypeError", "fetch failed")
    /\ pxOutbound' = callsAfter(pxOutbound, TRUE)
    /\ UNCHANGED <<pxReq, pxTimer, pxAborted, pxClock>>

\* the body arrives in full: lines 41-59
BodyArrives ==
    /\ pxPc = "reading"
    /\ \E text \in BodyTexts : pxResult' = RemoteResponse(pxRemote.status, text)
    /\ pxRemote' = [pxRemote EXCEPT !.finished = TRUE]
    /\ pxPc' = "done"
    /\ pxOutbound' = callsAfter(pxOutbound, pxRemote.status \notin 200..299)
    /\ UNCHANGED <<pxReq, pxTimer, pxAborted, pxClock>>

\* the connection breaks while the body is read: res.text() rejects
BodyFails ==
    /\ pxPc = "reading"
    /\ pxRemote' = [pxRemote EXCEPT !.failure = "body"]
    /\ pxPc' = "done"
    /\ pxResult' = ErrorResponse("TypeError", "terminated")
    /\ pxOutbound' = callsAfter(pxOutbound, TRUE)
    /\ UNCHANGED <<pxReq, pxTimer, pxAborted, pxClock>>

\* the timer of line 19 expires: controller.abort() rejects the awaited
\* call with an AbortError, which the catch block answers
TimerFires ==
    /\ pxTimer = "armed"
    /\ pxClock >= TIMEOUT_MS
    /\ pxTimer' = "fired"
    /\ pxAborted' = TRUE
    /\ pxPc' = IF pxPc \in {"fetching", "reading"} THEN "done" ELSE pxPc
    /\ pxResult' = IF pxPc \in {"fetching", "reading"}
                   THEN ErrorResponse("AbortError", "This operation was aborted")
                   ELSE pxResult
    /\ pxRemote' = IF pxPc \in {"fetching", "reading"}
                   THEN [pxRemote EXCEPT !.failure = "timeout"]
                   ELSE pxRemote
    /\ pxOutbound' = callsAfter(pxOutbound, pxPc \in {"fetching", "reading"})
    /\ UNCHANGED <<pxReq, pxClock>>

\* time passes; an armed timer that is due fires first
Tick ==
    /\ pxPc # "idle"
    /\ pxClock < MaxClock
    /\ ~(pxTimer = "armed" /\ pxClock >= TIMEOUT_MS)
    /\ pxClock' = pxClock + TickMs
    /\ UNCHANGED <<pxPc, pxReq, pxTimer, pxAborted, pxRemote, pxOutbound, pxResult>>

(***************************************************************************)
(* lib/request.ts: applyAuth, buildUrl, buildProxyPayload, runRequest      *)
(***************************************************************************)
AuthorizationName == <<"A", "u", "t", "h", "o", "r", "i", "z", "a", "t", "i", "o", "n">>

\* obj[key] = v on an object's members: an existing key keeps its place
SetMember(ms, key, v) ==
    IF \E i \in 1..Len(ms) : ms[i][1] = key
    THEN [i \in 1..Len(ms) |-> IF ms[i][1] = key THEN <<key, v>> ELSE ms[i]]
    ELSE Append(ms, <<key, v>>)

\* profile.auth; type "unset" is a profile without auth, "oauth" a type the
\* switch does not know.  A custom name is given only with the type using it.
Auths ==
    {a \in [type : {"none", "apiKeyHeader", "apiKeyQuery", "bearer", "oauth", "unset"},
            apiKey : {"", "secret"},
            apiKeyHeaderName : {<<>>, KeyName},
            apiKeyQueryName : {"", "key"},
            bearerToken : {"", "tok"}] :
        /\ (a.type # "apiKeyHeader") => a.apiKeyHeaderName = <<>>
        /\ (a.type # "apiKeyQuery") => a.apiKeyQueryName = ""}

\* faulty variant: the assignments go to the profile's own objects
applyAuthMutInPlace(profile) ==
    LET auth == profile.auth
        headerName == IF auth.apiKeyHeaderName # <<>> THEN auth.apiKeyHeaderName
                      ELSE AuthorizationName
        queryName == IF auth.apiKeyQueryName # "" THEN auth.apiKeyQueryName ELSE "api_key"
        headers ==
            CASE auth.type = "apiKeyHeader" /\ auth.apiKey # "" ->
                    (headerName :> auth.apiKey) @@ profile.headers
              [] auth.type = "bearer" /\ auth.bearerToken # "" ->
                    (AuthorizationName :> ("Bearer " \o auth.bearerToken)) @@ profile.headers
              [] OTHER -> profile.headers
        query ==
            IF auth.type = "apiKeyQuery" /\ auth.apiKey # ""
            THEN SetMember(profile.query, queryName, Str(auth.apiKey))
            ELSE profile.query
    IN  [headers |-> headers, query |-> query,
         input |-> [profile EXCEPT !.headers = headers, !.query = query]]

\* request.ts lines 35-59.  headers maps names to values, query is the
\* ordered members of the query object.  input is the profile object as
\* the call leaves it: lines 36-37 copy headers and query, so every
\* assignment goes to the copies.
applyAuth(profile) ==
    LET auth == profile.auth
        headerName == IF auth.apiKeyHeaderName # <<>> THEN auth.apiKeyHeaderName
                      ELSE AuthorizationName
        queryName == IF auth.apiKeyQueryName # "" THEN auth.apiKeyQueryName ELSE "api_key"
        headers ==
            CASE auth.type = "apiKeyHeader" /\ auth.apiKey # "" ->
                    (headerName :> auth.apiKey) @@ profile.headers
              [] auth.type = "bearer" /\ auth.bearerToken # "" ->
                    (AuthorizationName :> ("Bearer " \o auth.bearerToken)) @@ profile.headers
              [] OTHER -> profile.headers
        query ==
            IF auth.type = "apiKeyQuery" /\ auth.apiKey # ""
            THEN SetMember(profile.query, queryName, Str(auth.apiKey))
            ELSE profile.query
    IN  [headers |-> headers, query |-> query, input |-> profile]

\* A URL text is a sequence of tokens: the origin first, then "/" and the
\* path segments.  Url is what new URL(...) holds: origin, pathname, and the
\* search parameters in order; InvalidUrl is its TypeError.
Origin == "https://api.example.com"
Url(origin, pathname, search) ==
    [valid |-> TRUE, origin |-> origin, pathname |-> pathname, search |-> search]
InvalidUrl == [valid |-> FALSE, origin |-> "", pathname |-> <<>>, search |-> <<>>]

\* faulty variant: line 8 tests the value for truthiness
RECURSIVE searchParamsOfMutTruthy(_, _)
searchParamsOfMutTruthy(query, search) ==
    IF query = <<>> THEN search
    ELSE LET k == Head(query)[1]
             v == Head(query)[2]
         IN  searchParamsOfMutTruthy(Tail(query),
                 IF Truthy(v) THEN SetMember(search, k, String(v)) ELSE search)

\* url.searchParams.set(k, v) for each entry that line 8 lets through
RECURSIVE searchParamsOf(_, _)
searchParamsOf(query, search) ==
    IF query = <<>> THEN search
    ELSE LET k == Head(query)[1]
             v == Head(query)[2]
         IN  searchParamsOf(Tail(query),
                 IF v # Undef /\ v # Null /\ String(v) # ""
                 THEN SetMember(search, k, String(v)) ELSE search)

\* request.ts lines 3-11
buildUrl(baseUrl, path, query) ==
    LET base == IF baseUrl # <<>> /\ baseUrl[Len(baseUrl)] = "/"
                THEN SubSeq(baseUrl, 1, Len(baseUrl) - 1) ELSE baseUrl
        p == IF path # <<>> THEN (IF Head(path) = "/" THEN path ELSE <<"/">> \o path)
             ELSE <<>>
        text == base \o p
    IN  IF text = <<>> \/ Head(text) # Origin THEN InvalidUrl
        ELSE Url(Head(text),
                 IF Tail(text) = <<>> THEN <<"/">> ELSE Tail(text),
                 searchParamsOf(query, <<>>))

\* the baseUrl and path of a profile
Locations ==
    {<<<<>>, <<"/", "x">>>>,
     <<<<Origin>>, <<>>>>,
     <<<<Origin>>, <<"x">>>>,
     <<<<Origin, "/">>, <<"/", "x">>>>,
     <<<<Origin, "/", "v1", "/">>, <<"x">>>>,
     <<<<Origin, "/", "/">>, <<"x">>>>,
     <<<<Origin, "/">>, <<"/", "/", "x">>>>}

\* the ApiProfile objects of the form (types: ApiProfile)
Profiles ==
    {[baseUrl |-> l[1], path |-> l[2], method |-> m, headers |-> h, query |-> q,
      body |-> b, auth |-> a] :
        l \in Locations,
        m \in {"GET", "HEAD", "POST"},
        h \in {<<>>, (KeyName :> "k0"),
               (AuthorizationName :> "old") @@ (HostName :> "evil")},
        q \in {<<>>, << <<"q", Str("1")>>, <<"api_key", Str("old")>> >>,
               << <<"e", Str("")>>, <<"n", Null>>, <<"u", Undef>>,
                  <<"z", Num("0")>>, <<"q", Str("1")>> >>},
        b \in {Undef, Null, Obj(<< <<"a", Num("1")>> >>)},
        a \in Auths}

NoProfile ==
    [baseUrl |-> <<>>, path |-> <<>>, method |-> "none", headers |-> <<>>,
     query |-> <<>>, body |-> Undef,
     auth |-> [type |-> "none", apiKey |-> "", apiKeyHeaderName |-> <<>>,
               apiKeyQueryName |-> "", bearerToken |-> ""]]

NoAuthResult == [headers |-> <<>>, query |-> <<>>, input |-> NoProfile]

\* a ProxyRequest (types: ProxyRequest); thrown: buildUrl raised instead
ProxyRequest(url, method, headers, body) ==
    [thrown |-> FALSE, url |-> url, method |-> method, headers |-> headers, body |-> body]

NoProxyRequest ==
    [thrown |-> FALSE, url |-> InvalidUrl, method |-> "GET", headers |-> <<>>, body |-> Undef]

\* request.ts lines 13-22
buildProxyPayload(profile) ==
    LET a == applyAuth(profile)
        url == buildUrl(profile.baseUrl, profile.path, a.query)
    IN  IF ~url.valid THEN [NoProxyRequest EXCEPT !.thrown = TRUE]
        ELSE ProxyRequest(url, profile.method, a.headers, profile.body)

NoOutbound == [method |-> "none", headers |-> <<>>, body |-> "undefined"]

ContentTypeName == <<"C", "o", "n", "t", "e", "n", "t", "-", "T", "y", "p", "e">>

\* hubspot.ts lines 13-20
ensureBearerHeaders(profile) ==
    LET headers ==
            IF profile.auth.type = "bearer" /\ profile.auth.bearerToken # ""
            THEN (AuthorizationName :> ("Bearer " \o profile.auth.bearerToken))
                    @@ profile.headers
            ELSE profile.headers
    IN  IF ContentTypeName \in DOMAIN headers /\ headers[ContentTypeName] # ""
        THEN headers
        ELSE (ContentTypeName :> "application/json") @@ headers

\* the ProxyRequest of hubspot.ts lines 23-34, 68-69 and 73-74, without its
\* body: buildUrl is given the empty query
hubRequest(base, method, path) ==
    LET url == buildUrl(base.baseUrl, path, <<>>)
    IN  [thrown |-> ~url.valid, url |-> url, method |-> method,
         headers |-> IF url.valid THEN ensureBearerHeaders(base) ELSE <<>>]

NoHub == [kind |-> "none"]

RqIdle ==
    /\ rqPc = "idle"
    /\ rqProfile = NoProfile
    /\ rqGiven = NoProfile
    /\ rqAuth = NoAuthResult
    /\ rqAuthAgain = NoAuthResult
    /\ rqPayload = NoProxyRequest
    /\ rqOutbound = NoOutbound
    /\ rqHub = NoHub

\* runRequest (request.ts lines 61-64): the payload is built and posted to
\* /api/proxy; a TypeError of new URL ends the call
RunRequest ==
    /\ rqPc = "idle"
    /\ rqAuth' = applyAuth(rqProfile)
    /\ rqProfile' = applyAuth(rqProfile).input
    /\ rqPayload' = buildProxyPayload(rqProfile)
    /\ rqPc' = IF buildProxyPayload(rqProfile).thrown THEN "thrown" ELSE "posted"
    /\ UNCHANGED <<rqGiven, rqAuthAgain, rqOutbound, rqHub>>

\* the proxy serves the posted payload: route.ts lines 22-36, the outbound
\* fetch call
ProxyForwards ==
    /\ rqPc = "posted"
    /\ rqOutbound' =
            [method |-> rqPayload.method,
             headers |-> forwardHeaders(rqPayload.headers),
             body |-> outboundBody([method |-> rqPayload.method,
                                    hasBody |-> rqPayload.body # Undef])]
    /\ rqPc' = "forwarded"
    /\ UNCHANGED <<rqProfile, rqGiven, rqAuth, rqAuthAgain, rqPayload, rqHub>>

\* applyAuth is called once more on the profile object the first call left
ApplyAuthAgain ==
    /\ rqPc # "idle"
    /\ rqAuthAgain = NoAuthResult
    /\ rqAuthAgain' = applyAuth(rqProfile)
    /\ rqProfile' = applyAuth(rqProfile).input
    /\ UNCHANGED <<rqPc, rqGiven, rqAuth, rqPayload, rqOutbound, rqHub>>

\* searchContactByEmail and the two writes of executeUpsertContactByEmail
\* build their requests from the same base profile
HubspotRequests ==
    /\ rqPc \in {"forwarded", "thrown"}
    /\ rqHub = NoHub
    /\ rqHub' = [kind |-> "requests",
                 search |-> hubRequest(rqProfile, "POST",
                                       <<"/", "crm/v3/objects/contacts/search">>),
                 create |-> hubRequest(rqProfile, "POST",
                                       <<"/", "crm/v3/objects/contacts">>),
                 update |-> hubRequest(rqProfile, "PATCH",
                                       <<"/", "crm/v3/objects/contacts", "/", "42">>)]
    /\ UNCHANGED <<rqPc, rqProfile, rqGiven, rqAuth, rqAuthAgain, rqPayload, rqOutbound>>

(***************************************************************************)
(* mapping.ts called on its own                                            *)
(***************************************************************************)
\* the property values of the two mappings diffProperties is given
PropValues ==
    {Num("1"), Str("1"), Str("a"), Null,
     Obj(<< <<"a", Num("1")>>, <<"b", Num("2")>> >>),
     Obj(<< <<"b", Num("2")>>, <<"a", Num("1")>> >>),
     Arr(<<Num("1")>>)}

PropMaps == UNION {[ks -> PropValues] : ks \in SUBSET {"x", "y"}}

DiffArgs == [fn : {"diff"}, current : PropMaps, next : PropMaps]

\* the rules and the external records mapExternalToHubspot is given
FromPaths == {<<>>, <<"email">>, <<"user", "email">>, <<"user", "tags", "1">>}

MaxRules == 2

RuleLists ==
    UNION {[1..n -> [from : FromPaths, to : {"email", "tag"}, transform : Transforms]] :
              n \in 0..MaxRules}

ExternalRows ==
    {Null,
     Obj(<<>>),
     Obj(<< <<"email", Str("a@b.com")>>, <<"user", Null>> >>),
     Obj(<< <<"email", Null>>, <<"user", Str("u")>> >>),
     Obj(<< <<"email", Str("")>>, <<"user", Num("0")>> >>),
     Obj(<< <<"user", Obj(<< <<"email", Str("u@b.com")>>,
                            <<"tags", Arr(<<Str("t0"), Str("t1")>>)>> >>)>> >>),
     Obj(<< <<"user", Obj(<< <<"tags", Arr(<<Str("t0")>>)>> >>)>> >>)}

MapArgs == [fn : {"map"}, rules : RuleLists, row : ExternalRows]

MpIdle ==
    /\ mpPc = "idle"
    /\ mpArgs = [fn |-> "none"]
    /\ mpResult = [kind |-> "none"]

\* diffProperties(current, next) is called
CallDiff ==
    /\ mpPc = "idle"
    /\ mpArgs.fn = "diff"
    /\ mpResult' = [kind |-> "diff", changes |-> diffProperties(mpArgs.current, mpArgs.next)]
    /\ mpPc' = "called"
    /\ UNCHANGED mpArgs

\* mapExternalToHubspot(rules, externalRow) is called; a TypeError out of
\* get would end the call
CallMap ==
    /\ mpPc = "idle"
    /\ mpArgs.fn = "map"
    /\ mpResult' =
            IF \E i \in 1..Len(mpArgs.rules) : get(mpArgs.row, mpArgs.rules[i].from) = Raised
            THEN Raised
            ELSE [kind |-> "props",
                  props |-> mapExternalToHubspot(mpArgs.rules, mpArgs.row)]
    /\ mpPc' = "called"
    /\ UNCHANGED mpArgs

(***************************************************************************)
(* RunnerPage: saveDataset and loadDataset on localStorage                 *)
(***************************************************************************)
\* JSON.parse(JSON.stringify(v)): a member whose value is undefined is left
\* out of the text, an undefined element is written as null
RECURSIVE JSONroundTrip(_)
JSONroundTrip(v) ==
    CASE v.kind = "obj" ->
            LET kept == SelectSeq(v.members, LAMBDA m : m[2] # Undef)
            IN  Obj([i \in 1..Len(kept) |-> <<kept[i][1], JSONroundTrip(kept[i][2])>>])
      [] v.kind = "arr" ->
            Arr([i \in 1..Len(v.elems) |->
                    IF v.elems[i] = Undef THEN Null ELSE JSONroundTrip(v.elems[i])])
      [] OTHER -> v

\* the BuiltDataset value {sourceName, rows} that buildDataset returned
BuiltDataset(result) ==
    Obj(<< <<"sourceName", Str("New Request")>>, <<"rows", Arr(result.rows)>> >>)

\* "Save" is clicked (enabled when a dataset is set): all[datasetName] =
\* dataset, and the text of all is written to localStorage
SaveDataset ==
    /\ dsPc = "returned"
    /\ dsSaved' = JSONroundTrip(
                      Obj(SetMember(dsSaved.members, "my_dataset", BuiltDataset(dsResult))))
    /\ UNCHANGED <<dsPc, dsOpt, dsLimited, dsOut, dsCalls, dsInFlight, dsReplies,
                   dsResult, dsLoaded>>

\* a name is chosen in "Load": setDataset(all[name]) when it is there
LoadDataset ==
    /\ Truthy(Member(dsSaved, "my_dataset"))
    /\ dsLoaded' = Member(dsSaved, "my_dataset")
    /\ UNCHANGED <<dsPc, dsOpt, dsLimited, dsOut, dsCalls, dsInFlight, dsReplies,
                   dsResult, dsSaved>>

(***************************************************************************)
(* RunnerPage: execute, started from either run button                     *)
(***************************************************************************)
MaxRuns == 4

\* what runRequest can settle with: a reply of the proxy, or a rejection
\* (new URL raising, fetch or res.json() failing), which the catch of line
\* 83 turns into a ClientError response
RunOutcomes == {"OK", "Internal Server Error", "ClientError"}

\* useState response: undefined, or the response set for a run
NoRunResponse == [run |-> 0, statusText |-> "undefined"]

RnIdle ==
    /\ rnStarted = 0
    /\ rnInFlight = {}
    /\ rnLoading = FALSE
    /\ rnResponse = NoRunResponse

\* execute up to its await (lines 78-81): loading is set, the response is
\* cleared and runRequest is started
ExecuteStarts ==
    /\ rnStarted' = rnStarted + 1
    /\ rnInFlight' = rnInFlight \cup {rnStarted + 1}
    /\ rnLoading' = TRUE
    /\ rnResponse' = NoRunResponse

\* the button of the page header, disabled while loading (line 156)
ClickHeaderRun ==
    /\ rnStarted < MaxRuns
    /\ ~rnLoading
    /\ ExecuteStarts

\* the button of ApiProfileForm, onClick={onRun}, never disabled (line 165
\* and the form's line 323)
ClickFormRun ==
    /\ rnStarted < MaxRuns
    /\ ExecuteStarts

\* the runRequest of one run settles: lines 82-87 set its response (or the
\* ClientError) and clear loading
RunSettles ==
    /\ \E r \in rnInFlight, o \in RunOutcomes :
        /\ rnInFlight' = rnInFlight \ {r}
        /\ rnResponse' = [run |-> r, statusText |-> o]
    /\ rnLoading' = FALSE
    /\ UNCHANGED rnStarted

(***************************************************************************)
(* Specifications                                                          *)
(***************************************************************************)
Init == DsIdle /\ UpIdle /\ PxIdle /\ RqIdle /\ MpIdle /\ RnIdle

Next ==
    \/ BuildStart /\ UNCHANGED <<upVars, pxVars, rqVars, mpVars, rnVars>>
    \/ ListSettles /\ UNCHANGED <<upVars, pxVars, rqVars, mpVars, rnVars>>
    \/ DetailSettles /\ UNCHANGED <<upVars, pxVars, rqVars, mpVars, rnVars>>
    \/ SaveDataset /\ UNCHANGED <<upVars, pxVars, rqVars, mpVars, rnVars>>
    \/ LoadDataset /\ UNCHANGED <<upVars, pxVars, rqVars, mpVars, rnVars>>

Spec == Init /\ [][Next]_vars

InitUpsert ==
    /\ DsIdle
    /\ PxIdle
    /\ RqIdle
    /\ MpIdle
    /\ RnIdle
    /\ upExt \in ExtRows
    /\ upsertPlan = NoPlan
    /\ dryRun = TRUE
    /\ response = NoResponse
    /\ loading = FALSE
    /\ upExec = NoExec
    /\ upSearch = NoSearch
    /\ remote \in RemoteInit
    /\ upLog = Log("none", "none", 0, TRUE, FALSE, NoProps, FALSE, FALSE)

NextUpsert ==
    \/ ToggleDryRun /\ UNCHANGED <<dsVars, pxVars, rqVars, mpVars, rnVars>>
    \/ PlanUpsert /\ UNCHANGED <<dsVars, pxVars, rqVars, mpVars, rnVars>>
    \/ ExecuteUpsert /\ UNCHANGED <<dsVars, pxVars, rqVars, mpVars, rnVars>>
    \/ WriteSucceeds /\ UNCHANGED <<dsVars, pxVars, rqVars, mpVars, rnVars>>
    \/ WriteFails /\ UNCHANGED <<dsVars, pxVars, rqVars, mpVars, rnVars>>

SpecUpsert == InitUpsert /\ [][NextUpsert]_vars

NextProxy ==
    \/ PxEnter /\ UNCHANGED <<dsVars, upVars, rqVars, mpVars, rnVars>>
    \/ HeadersArrive /\ UNCHANGED <<dsVars, upVars, rqVars, mpVars, rnVars>>
    \/ ConnectFails /\ UNCHANGED <<dsVars, upVars, rqVars, mpVars, rnVars>>
    \/ BodyArrives /\ UNCHANGED <<dsVars, upVars, rqVars, mpVars, rnVars>>
    \/ BodyFails /\ UNCHANGED <<dsVars, upVars, rqVars, mpVars, rnVars>>
    \/ TimerFires /\ UNCHANGED <<dsVars, upVars, rqVars, mpVars, rnVars>>
    \/ Tick /\ UNCHANGED <<dsVars, upVars, rqVars, mpVars, rnVars>>

SpecProxy == Init /\ [][NextProxy]_vars

InitRequest ==
    /\ DsIdle
    /\ UpIdle
    /\ PxIdle
    /\ MpIdle
    /\ RnIdle
    /\ rqPc = "idle"
    /\ rqProfile \in Profiles
    /\ rqGiven = rqProfile
    /\ rqAuth = NoAuthResult
    /\ rqAuthAgain = NoAuthResult
    /\ rqPayload = NoProxyRequest
    /\ rqOutbound = NoOutbound
    /\ rqHub = NoHub

NextRequest ==
    \/ RunRequest /\ UNCHANGED <<dsVars, upVars, pxVars, mpVars, rnVars>>
    \/ ProxyForwards /\ UNCHANGED <<dsVars, upVars, pxVars, mpVars, rnVars>>
    \/ ApplyAuthAgain /\ UNCHANGED <<dsVars, upVars, pxVars, mpVars, rnVars>>
    \/ HubspotRequests /\ UNCHANGED <<dsVars, upVars, pxVars, mpVars, rnVars>>

SpecRequest == InitRequest /\ [][NextRequest]_vars

InitMapping ==
    /\ DsIdle
    /\ UpIdle
    /\ PxIdle
    /\ RqIdle
    /\ RnIdle
    /\ mpPc = "idle"
    /\ mpArgs \in (DiffArgs \cup MapArgs)
    /\ mpResult = [kind |-> "none"]

NextMapping ==
    \/ CallDiff /\ UNCHANGED <<dsVars, upVars, pxVars, rqVars, rnVars>>
    \/ CallMap /\ UNCHANGED <<dsVars, upVars, pxVars, rqVars, rnVars>>

SpecMapping == InitMapping /\ [][NextMapping]_vars

NextRunner ==
    \/ ClickHeaderRun /\ UNCHANGED <<dsVars, upVars, pxVars, rqVars, mpVars>>
    \/ ClickFormRun /\ UNCHANGED <<dsVars, upVars, pxVars, rqVars, mpVars>>
    \/ RunSettles /\ UNCHANGED <<dsVars, upVars, pxVars, rqVars, mpVars>>

SpecRunner == Init /\ [][NextRunner]_vars

(***************************************************************************)
(* Properties of buildDataset (checked under Spec)                         *)
(***************************************************************************)
\* the detail replies settled so far: dsReplies without the list reply
DetailRepliesSoFar == Tail(dsReplies)

\* the row the error-handling contract prescribes for a detail reply
ExpectedRow(dres) ==
    IF dres.ok THEN dres.data
    ELSE Obj(<< <<"__error", Bool("true")>>,
                <<"status", Num(ToString(dres.status))>>,
                <<"statusText", Str(dres.statusText)>> >>)

\* C1: with a detailProfile and a successful list call yielding n truncated
\* items, whatever subset of the detail calls answers ok=false, the run is
\* not aborted by such a reply, the dataset returned has exactly n rows, and
\* row i is the error marker {__error:true, status, statusText} of detail
\* call i when it failed and the detail response body when it succeeded.
C1_PartialFailureIsolation ==
    /\ (dsPc = "thrown" /\ Len(dsReplies) >= 2)
            => dsReplies[Len(dsReplies)] = Rejected
    /\ (dsPc = "awaitDetail") => Len(dsOut) = Len(DetailRepliesSoFar)
    /\ (dsPc = "returned" /\ dsOpt.hasDetail) =>
            /\ dsResult.kind = "dataset"
            /\ Len(dsResult.rows) = Len(dsLimited)
            /\ Len(DetailRepliesSoFar) = Len(dsLimited)
            /\ \A i \in 1..Len(dsLimited) :
                    dsResult.rows[i] = ExpectedRow(DetailRepliesSoFar[i])

C1_Witness ==
    /\ dsPc = "returned"
    /\ dsOpt.hasDetail
    /\ Len(dsLimited) = 3
    /\ DetailRepliesSoFar[1].ok
    /\ ~DetailRepliesSoFar[2].ok
    /\ DetailRepliesSoFar[3].ok
    /\ dsResult.rows[2] = ExpectedRow(Reply(FALSE, 404, "Not Found", Undef))
    /\ dsResult.rows[3] = DetailBody

\* C2: whenever the list call returns ok=false, buildDataset raises an error
\* whose message carries the remote status and statusText, returns no
\* dataset (not a partial one either) and issues no detail request.
C2_ListFailureIsFatal ==
    (Len(dsReplies) >= 1 /\ ~dsReplies[1].ok /\ dsReplies[1] # Rejected) =>
        /\ dsPc = "thrown"
        /\ dsResult.kind = "error"
        /\ dsResult.message = <<"List request failed: ", ToString(dsReplies[1].status),
                                " ", dsReplies[1].statusText>>
        /\ dsCalls = <<[kind |-> "list", path |-> <<"/list">>]>>
        /\ dsInFlight = 0
        /\ dsOut = <<>>

C2_Witness ==
    /\ dsPc = "thrown"
    /\ dsOpt.hasDetail
    /\ dsReplies = <<Reply(FALSE, 500, "Internal Server Error",
                           Obj(<< <<"message", Str("boom")>> >>))>>
    /\ dsResult.message = <<"List request failed: ", "500", " ", "Internal Server Error">>

(***************************************************************************)
(* Properties of the upsert planner and executor (checked under SpecUpsert)*)
(***************************************************************************)
\* the mapped properties of the session's external record
Mapped == mapExternalToHubspot(Rules, upExt)

\* executeUpsert has just run (nothing has run since)
JustExecuted == upLog.event = "exec"

\* planUpsert has just run on parseable input; Planned: and set a plan
JustPlanAttempt == upLog.event \in {"plan", "planFailed"} /\ upExt # InvalidJson
JustPlanned == upLog.event = "plan"

\* C3: executeUpsertContactByEmail with dryRun=true, for every plan (create,
\* update or noop, with or without id): no network call, and the answer is
\* ok=true, status=200, statusText="DryRun", durationMs=0, data = the plan.
C3_DryRunIsSynthetic ==
    (JustExecuted /\ upLog.dry) =>
        /\ upLog.calls = 0
        /\ ~upExec.active
        /\ ~loading
        /\ response.ok
        /\ response.status = 200
        /\ response.statusText = "DryRun"
        /\ response.durationMs = 0
        /\ response.data = [kind |-> "plan", plan |-> upsertPlan]

C3_Witness ==
    /\ JustExecuted
    /\ upLog.dry
    /\ upsertPlan.action = "update"
    /\ upsertPlan.id = Undef
    /\ response.statusText = "DryRun"

\* C4: executeUpsertContactByEmail with dryRun=false takes one of three
\* branches decided by plan.action: every create plan makes exactly one
\* remote write (POST /crm/v3/objects/contacts with {properties}), every
\* update plan exactly one (PATCH addressed to plan.id with the whole mapped
\* properties), every noop plan none, answering statusText "Noop" with the
\* plan as data.
C4_BranchByAction ==
    (JustExecuted /\ ~upLog.dry) =>
        /\ upsertPlan.action = "create" =>
                /\ upLog.calls = 1
                /\ upExec.active
                /\ upExec.request = [method |-> "POST",
                                     path |-> <<"/crm/v3/objects/contacts">>,
                                     body |-> upsertPlan.properties]
        /\ upsertPlan.action = "update" =>
                /\ upLog.calls = 1
                /\ upExec.active
                /\ upExec.request = [method |-> "PATCH",
                                     path |-> <<"/crm/v3/objects/contacts/",
                                                String(upsertPlan.id)>>,
                                     body |-> upsertPlan.properties]
        /\ upsertPlan.action = "noop" =>
                /\ upLog.calls = 0
                /\ ~upExec.active
                /\ response.ok
                /\ response.status = 200
                /\ response.statusText = "Noop"
                /\ response.data = [kind |-> "plan", plan |-> upsertPlan]

\* the search of the last planning reported at least one match
SearchMatched ==
    /\ upSearch.ok
    /\ upSearch.data.hasBody
    /\ upSearch.data.total > 0
    /\ upSearch.data.hasResults
    /\ upSearch.data.results # <<>>

FirstMatch == upSearch.data.results[1]
FirstProps == IF FirstMatch.hasProps THEN FirstMatch.properties ELSE NoProps
Differing(a, b) == {k \in (DOMAIN a \cup DOMAIN b) : PropAt(a, k) # PropAt(b, k)}

\* C5: planning with an email present and a successful search reporting at
\* least one match: plan.id is the first match's id; if its properties are
\* identical to the mapped ones the action is noop with an empty diff; if
\* exactly one field differs the action is update and the diff holds exactly
\* that field, from = the remote value, to = the mapped value.
C5_PlanAgainstMatch ==
    (JustPlanned /\ SearchMatched) =>
        /\ upsertPlan.properties = Mapped
        /\ upsertPlan.hasId
        /\ upsertPlan.id = FirstMatch.id
        /\ (FirstProps = Mapped) =>
                /\ upsertPlan.action = "noop"
                /\ upsertPlan.hasDiff
                /\ upsertPlan.diff = NoProps
        /\ (Cardinality(Differing(FirstProps, Mapped)) = 1) =>
                /\ upsertPlan.action = "update"
                /\ upsertPlan.hasDiff
                /\ DOMAIN upsertPlan.diff = Differing(FirstProps, Mapped)
                /\ \A k \in DOMAIN upsertPlan.diff :
                        /\ upsertPlan.diff[k].from = PropAt(FirstProps, k)
                        /\ upsertPlan.diff[k].to = PropAt(Mapped, k)

C5_Witness ==
    /\ JustPlanned
    /\ SearchMatched
    /\ FirstMatch.id = Str(TheId)
    /\ Differing(FirstProps, Mapped) = {"firstname"}
    /\ upsertPlan.action = "update"
    /\ upsertPlan.diff = ("firstname" :> [from |-> Str("Old"), to |-> Str("New")])

\* the search of the last planning reported no match, or failed (ok=false,
\* status 0 included)
SearchFoundNothing ==
    /\ upSearch # NoSearch
    /\ ~upSearch.rejected
    /\ \/ ~upSearch.ok
       \/ upSearch.data.hasBody /\ upSearch.data.total = 0

\* C6: planning with an email present, when the search reports zero matches
\* or the search call fails (ok=false): no exception, and the plan is
\* {action:"create", matchEmail: the email, properties: the mapped ones},
\* without id and without diff.
C6_CreateWhenNotFound ==
    (JustPlanAttempt /\ Truthy(PropAt(Mapped, "email")) /\ SearchFoundNothing) =>
        /\ JustPlanned
        /\ upsertPlan = Plan("create", TRUE, PropAt(Mapped, "email"), FALSE, Undef,
                             Mapped, FALSE, NoProps)

C6_Witness ==
    /\ JustPlanned
    /\ upSearch = SearchReply(FALSE, 0, "NetworkError", NoSearchData)
    /\ upsertPlan.action = "create"
    /\ upsertPlan.hasEmail
    /\ upsertPlan.matchEmail = TheEmail

\* C7: planning when the mapped properties carry no email value (absent or
\* empty): the plan is {action:"create", properties} without matchEmail, and
\* no proxy call (no remote search) is made.
C7_NoKeyNoSearch ==
    (JustPlanAttempt /\ PropAt(Mapped, "email") \in {Undef, Str("")}) =>
        /\ JustPlanned
        /\ upLog.calls = 0
        /\ upSearch = NoSearch
        /\ upsertPlan = Plan("create", FALSE, Undef, FALSE, Undef, Mapped, FALSE, NoProps)

C7_Witness ==
    /\ JustPlanned
    /\ PropAt(Mapped, "email") = Str("")
    /\ upLog.calls = 0
    /\ upsertPlan.action = "create"

\* C8: the plan/execute protocol is idempotent: for every remote record
\* (one holding properties outside the mapped set included), once an update
\* plan was executed and the remote merged the PATCHed properties, planning
\* again with the same mapped properties yields noop, and no second write is
\* issued for the unchanged input.
C8_Idempotent ==
    /\ (JustPlanned /\ upLog.fresh) => upsertPlan.action = "noop"
    /\ upExec.active => ~upExec.fresh

(***************************************************************************)
(* Properties of POST /api/proxy (checked under SpecProxy)                 *)
(***************************************************************************)
\* C9: POST /api/proxy never throws and answers with transport status 200 on
\* every path: a remote non-2xx reply comes back with ok=false and the
\* remote status, every transport failure (connection error, timeout) as
\* {ok:false, status:0, statusText:"NetworkError", headers:{}, rawText: a
\* diagnostic message}.
C9_AlwaysAnswers200 ==
    /\ ~pxResult.threw
    /\ (pxPc = "done") =>
        /\ pxResult.transport = 200
        /\ pxRemote.finished =>
                /\ pxResult.payload.status = pxRemote.status
                /\ pxResult.payload.ok = (pxRemote.status \in 200..299)
        /\ (pxRemote.failure # "none") =>
                /\ ~pxResult.payload.ok
                /\ pxResult.payload.status = 0
                /\ pxResult.payload.statusText = "NetworkError"
                /\ pxResult.payload.headers = {}
                /\ pxResult.payload.hasRawText
                /\ pxResult.payload.rawText # <<>>
        /\ (pxRemote.failure = "timeout") =>
                pxResult.payload.rawText = <<"Request timed out">>
    /\ (pxPc # "done") => pxResult = NoAnswer

C9_Witness ==
    /\ pxPc = "done"
    /\ pxRemote.failure = "timeout"
    /\ pxResult.transport = 200
    /\ pxResult.payload.rawText = <<"Request timed out">>

\* C10: every invocation of the proxy executor returns a response: whenever
\* the remote has not finished responding (headers and body) when the
\* 30-second timer expires, the in-flight call is cancelled and the handler
\* answers {ok:false, status:0, statusText:"NetworkError",
\* rawText:"Request timed out"}; so past the 30 seconds every invocation has
\* answered.
C10_TimeoutBoundsEveryCall ==
    (pxReq.kind = "request" /\ pxClock > TIMEOUT_MS) =>
        /\ pxPc = "done"
        /\ ~pxRemote.finished =>
                pxResult.payload = ErrorResponse("AbortError", "").payload
                    \/ pxRemote.failure \in {"connect", "body"}

(***************************************************************************)
(* Properties of the request builder (checked under SpecRequest) and of    *)
(* the proxy's forwarding                                                  *)
(***************************************************************************)
\* the payload was built and posted
Posted == rqPc \in {"posted", "forwarded"}

\* C11 as stated: for every ApiProfile whose method is GET or HEAD, the
\* ProxyRequest built from it (buildProxyPayload) carries no body, whatever
\* profile.body holds.
C11_PayloadHasNoBody ==
    (Posted /\ rqGiven.method \in {"GET", "HEAD"}) => rqPayload.body = Undef

\* C11 as amended: for every ApiProfile whose method is GET or HEAD, the
\* ProxyRequest built from it carries profile.body unchanged, and the
\* outbound call the proxy makes for that ProxyRequest carries no body,
\* whatever profile.body holds.
C11_OutboundHasNoBody ==
    /\ Posted => rqPayload.body = rqGiven.body
    /\ (rqPc = "forwarded" /\ rqGiven.method \in {"GET", "HEAD"}) =>
            /\ rqOutbound.method = rqGiven.method
            /\ rqOutbound.body = "undefined"

C11_Witness ==
    /\ rqPc = "forwarded"
    /\ rqGiven.method = "HEAD"
    /\ rqGiven.body = Obj(<< <<"a", Num("1")>> >>)
    /\ rqPayload.body = Obj(<< <<"a", Num("1")>> >>)
    /\ rqOutbound.body = "undefined"

\* a header name that starts with "host", whatever the case of its letters
IsHostLike(name) ==
    /\ Len(name) >= 4
    /\ name[1] \in {"h", "H"}
    /\ name[2] \in {"o", "O"}
    /\ name[3] \in {"s", "S"}
    /\ name[4] \in {"t", "T"}

\* C12: for every client-supplied header map, the outbound call of the
\* proxy carries no header whose name starts case-insensitively with
\* "host", and carries every other supplied header with its value unchanged
\* (and no header that was not supplied).
C12_HostHeadersStripped ==
    (pxOutbound # <<>>) =>
        LET sent == pxOutbound[1].headers
            given == pxReq.headers
        IN  /\ DOMAIN sent \subseteq DOMAIN given
            /\ \A n \in DOMAIN given :
                    IF IsHostLike(n) THEN n \notin DOMAIN sent
                    ELSE n \in DOMAIN sent /\ sent[n] = given[n]

C12_Witness ==
    /\ pxOutbound # <<>>
    /\ pxReq.headers = (<<"H", "o">> :> "s1") @@ (KeyName :> "k1") @@ (HostMixed :> "evil")
    /\ pxOutbound[1].headers = (<<"H", "o">> :> "s1") @@ (KeyName :> "k1")

(***************************************************************************)
(* Further properties of buildDataset (checked under Spec)                 *)
(***************************************************************************)
\* the list call has answered ok=true
ListSucceeded == Len(dsReplies) >= 1 /\ dsReplies[1].ok

\* the items of the list reply: the array under "results", if there is one
ListItems ==
    LET d == dsReplies[1].data
    IN  IF d.kind = "obj" /\ Member(d, "results").kind = "arr"
        THEN Member(d, "results").elems ELSE <<>>

\* C13: without a detailProfile the rows are exactly the truncated list
\* items in their original order, and the whole operation makes exactly one
\* network call (the list call) and no other.
C13_NoDetailShortCircuit ==
    (ListSucceeded /\ ~dsOpt.hasDetail) =>
        /\ dsPc = "returned"
        /\ dsResult.kind = "dataset"
        /\ dsResult.rows = dsLimited
        /\ Len(dsResult.rows) <= Len(ListItems)
        /\ \A i \in 1..Len(dsResult.rows) : dsResult.rows[i] = ListItems[i]
        /\ dsCalls = <<[kind |-> "list", path |-> <<"/list">>]>>
        /\ dsInFlight = 0

C13_Witness ==
    /\ dsPc = "returned"
    /\ ~dsOpt.hasDetail
    /\ ListItems = <<ItemA, ItemB, ItemC>>
    /\ dsResult.rows = <<ItemA, ItemB, ItemC>>
    /\ Len(dsCalls) = 1

\* the limit a call asks for: maxItems, or 20 when it is not given
AskedMax == IF dsOpt.hasMax THEN dsOpt.maxItems ELSE 20

\* the number of rows truncation prescribes: min(n, maxItems), never below 0
RowsDue ==
    LET n == Len(ListItems)
        k == IF n < AskedMax THEN n ELSE AskedMax
    IN  IF k < 0 THEN 0 ELSE k

\* C14: for every list of n items and every integer maxItems a caller can
\* pass (default 20 when unset), the dataset has at most max(maxItems, 0)
\* rows, and its rows correspond to the first min(n, maxItems) list items in
\* original order.
C14_Truncation ==
    (dsPc = "returned") =>
        /\ Len(dsResult.rows) <= (IF AskedMax < 0 THEN 0 ELSE AskedMax)
        /\ Len(dsResult.rows) = RowsDue
        /\ ~dsOpt.hasDetail =>
                \A i \in 1..Len(dsResult.rows) : dsResult.rows[i] = ListItems[i]
        /\ dsOpt.hasDetail =>
                \A i \in 1..Len(dsResult.rows) :
                    dsCalls[i + 1] = DetailCall(ListItems[i], dsOpt)

\* C15: detail requests are issued strictly one at a time in list order:
\* the request for item i+1 is started only after the request for item i
\* has completed, at no point are two detail requests in flight, and row i
\* of the result belongs to list item i.
C15_SequentialDetail ==
    /\ dsInFlight \in {0, 1}
    /\ Len(dsCalls) = Len(dsReplies) + dsInFlight
    /\ \A k \in 2..Len(dsCalls) :
            /\ k - 1 <= Len(dsLimited)
            /\ dsCalls[k] = DetailCall(dsLimited[k - 1], dsOpt)
    /\ \A i \in 1..Len(dsOut) :
            /\ i + 1 <= Len(dsReplies)
            /\ dsOut[i] = ExpectedRow(dsReplies[i + 1])
    /\ (dsPc = "returned" /\ dsOpt.hasDetail) => dsResult.rows = dsOut

C15_Witness ==
    /\ dsPc = "awaitDetail"
    /\ dsInFlight = 1
    /\ dsLimited = <<ItemC, ItemA, ItemC>>
    /\ Len(dsOut) = 1
    /\ dsOpt.idVarName = "ID"
    /\ dsCalls[2].path = DetailPathTemplate
    /\ dsCalls[3].path = <<"/v1/users/", "7", "/x/", "7">>

\* C16: once the list call has succeeded, buildDataset returns a dataset
\* with one row per truncated item and raises no exception for any way a
\* per-item detail call can fail, the call to the proxy endpoint itself
\* rejecting or returning an unparseable reply included.
C16_LeafFailuresNeverThrown ==
    ListSucceeded =>
        /\ dsPc # "thrown"
        /\ dsResult.kind # "error"
        /\ (dsPc = "returned") => Len(dsResult.rows) = Len(dsLimited)

(***************************************************************************)
(* Properties of diffProperties and mapExternalToHubspot (checked under    *)
(* SpecMapping)                                                            *)
(***************************************************************************)
\* the keys of an object value
KeysOf(o) == {o.members[i][1] : i \in 1..Len(o.members)}

\* deep equality of two values: same kind, same primitive, the same keys
\* with deep-equal values in whatever order, the same elements in order
RECURSIVE DeepEqual(_, _)
DeepEqual(a, b) ==
    IF a.kind # b.kind THEN FALSE
    ELSE CASE a.kind = "obj" ->
                /\ KeysOf(a) = KeysOf(b)
                /\ \A k \in KeysOf(a) : DeepEqual(Member(a, k), Member(b, k))
           [] a.kind = "arr" ->
                /\ Len(a.elems) = Len(b.elems)
                /\ \A i \in 1..Len(a.elems) : DeepEqual(a.elems[i], b.elems[i])
           [] OTHER -> a = b

\* the fields in which two property mappings differ
FieldsDiffering(current, next) ==
    {k \in (DOMAIN current \cup DOMAIN next) :
        ~DeepEqual(PropAt(current, k), PropAt(next, k))}

DiffCalled == mpPc = "called" /\ mpArgs.fn = "diff"

\* C17: diffProperties(current, next): when current and next are deep-equal
\* the result is the empty mapping; when exactly one field differs the
\* result has exactly one entry, keyed by that field, whose from is
\* current's value and whose to is next's value.
C17_DiffRoundTrip ==
    DiffCalled =>
        LET differing == FieldsDiffering(mpArgs.current, mpArgs.next)
        IN  /\ (differing = {}) => mpResult.changes = NoProps
            /\ (Cardinality(differing) = 1) =>
                    /\ DOMAIN mpResult.changes = differing
                    /\ \A k \in differing :
                            /\ mpResult.changes[k].from = PropAt(mpArgs.current, k)
                            /\ mpResult.changes[k].to = PropAt(mpArgs.next, k)

\* C18: diffProperties compares field values by key-order-independent,
\* type-sensitive structural equality: a field has a diff entry exactly
\* when its two values are not deep-equal, so two object values that differ
\* only in the order of their keys produce no entry, while numeric 1 and
\* string "1" produce one.
C18_StructuralEquality ==
    DiffCalled =>
        \A k \in (DOMAIN mpArgs.current \cup DOMAIN mpArgs.next) :
            (k \in DOMAIN mpResult.changes)
                <=> ~DeepEqual(PropAt(mpArgs.current, k), PropAt(mpArgs.next, k))

\* the value at a dot-path, walked segment by segment: a segment that is
\* not there (the value above it has no such member or element) gives
\* undefined
RECURSIVE Resolve(_, _)
Resolve(v, path) ==
    IF path = <<>> THEN v
    ELSE LET key == Head(path)
         IN  CASE v.kind = "obj" /\ key \in KeysOf(v) ->
                        Resolve(Member(v, key), Tail(path))
               [] v.kind = "arr" /\ key = "0" /\ Len(v.elems) >= 1 ->
                        Resolve(v.elems[1], Tail(path))
               [] v.kind = "arr" /\ key = "1" /\ Len(v.elems) >= 2 ->
                        Resolve(v.elems[2], Tail(path))
               [] OTHER -> Undef

\* the value rule r resolves to on the row, after its transform if any
Resolved(r, row) ==
    IF r.transform = "none" THEN Resolve(row, r.from)
    ELSE applyTransform(r.transform, Resolve(row, r.from))

MapCalled == mpPc = "called" /\ mpArgs.fn = "map"

\* C19: for every rule list and external record, mapExternalToHubspot
\* raises nothing, and its output contains a key exactly when a rule writing
\* that key resolves (after the rule's transform, if any) to a value that is
\* not undefined, the last such rule giving the value; a dot-path with a
\* missing segment resolves to undefined, so absent source fields never
\* appear in the output as undefined or null placeholders.
C19_MapOmitsAbsent ==
    MapCalled =>
        LET rules == mpArgs.rules
            row == mpArgs.row
            writers(k) == {i \in 1..Len(rules) :
                              rules[i].to = k /\ Resolved(rules[i], row) # Undef}
            targets == {rules[i].to : i \in 1..Len(rules)}
        IN  /\ mpResult.kind = "props"
            /\ DOMAIN mpResult.props \subseteq targets
            /\ \A k \in targets :
                    /\ (k \in DOMAIN mpResult.props) <=> (writers(k) # {})
                    /\ (writers(k) # {}) =>
                            \E i \in writers(k) :
                                /\ \A j \in writers(k) : j <= i
                                /\ mpResult.props[k] = Resolved(rules[i], row)
            /\ \A k \in DOMAIN mpResult.props : mpResult.props[k] # Undef
            /\ \A k \in targets :
                    (\A i \in 1..Len(rules) :
                        rules[i].to = k =>
                            /\ rules[i].transform = "none"
                            /\ Resolve(row, rules[i].from) = Undef)
                        => k \notin DOMAIN mpResult.props

C19_Witness ==
    /\ MapCalled
    /\ mpArgs.row = Obj(<< <<"email", Str("a@b.com")>>, <<"user", Null>> >>)
    /\ mpArgs.rules = <<[from |-> <<"email">>, to |-> "email", transform |-> "none"],
                        [from |-> <<"user", "tags", "1">>, to |-> "tag", transform |-> "none"]>>
    /\ mpResult = [kind |-> "props", props |-> ("email" :> Str("a@b.com"))]

(***************************************************************************)
(* Properties of applyAuth (checked under SpecRequest)                     *)
(***************************************************************************)
\* the entries of a query object as a mapping from its keys
QueryMap(ms) == [k \in KeysOf(Obj(ms)) |-> Member(Obj(ms), k)]

\* no key occurs twice among the members
NoDuplicateKeys(ms) == \A i, j \in 1..Len(ms) : ms[i][1] = ms[j][1] => i = j

\* mapping m with the one entry k set to v, all others as they were
WithEntry(m, k, v) == [x \in (DOMAIN m \cup {k}) |-> IF x = k THEN v ELSE m[x]]

\* C20: applyAuth is a pure function of the profile: its result equals
\* copies of profile.headers and profile.query changed in at most one entry
\* chosen by auth.type (apiKeyHeader: headers[headerName or "Authorization"]
\* = apiKey; apiKeyQuery: query[queryName or "api_key"] = apiKey; bearer:
\* headers["Authorization"] = "Bearer " + bearerToken), the entry being set
\* only when the credential is non-empty; for type none or an unknown type
\* nothing changes; the input profile is never mutated, and applying it
\* again to the same profile yields the same result.
C20_ApplyAuthPure ==
    (rqPc # "idle") =>
        LET auth == rqGiven.auth
            headerName == IF auth.apiKeyHeaderName = <<>> THEN AuthorizationName
                          ELSE auth.apiKeyHeaderName
            queryName == IF auth.apiKeyQueryName = "" THEN "api_key"
                         ELSE auth.apiKeyQueryName
        IN  /\ rqProfile = rqGiven
            /\ rqAuth.input = rqGiven
            /\ (rqAuthAgain # NoAuthResult) => rqAuthAgain = rqAuth
            /\ NoDuplicateKeys(rqAuth.query)
            /\ CASE auth.type = "apiKeyHeader" /\ auth.apiKey # "" ->
                        /\ rqAuth.headers = WithEntry(rqGiven.headers, headerName, auth.apiKey)
                        /\ rqAuth.query = rqGiven.query
                 [] auth.type = "apiKeyQuery" /\ auth.apiKey # "" ->
                        /\ rqAuth.headers = rqGiven.headers
                        /\ QueryMap(rqAuth.query) =
                                WithEntry(QueryMap(rqGiven.query), queryName, Str(auth.apiKey))
                 [] auth.type = "bearer" /\ auth.bearerToken # "" ->
                        /\ rqAuth.headers =
                                WithEntry(rqGiven.headers, AuthorizationName,
                                          "Bearer " \o auth.bearerToken)
                        /\ rqAuth.query = rqGiven.query
                 [] OTHER ->
                        /\ rqAuth.headers = rqGiven.headers
                        /\ rqAuth.query = rqGiven.query

C20_Witness ==
    /\ rqPc = "forwarded"
    /\ rqAuthAgain # NoAuthResult
    /\ rqGiven.auth.type = "bearer"
    /\ rqGiven.auth.bearerToken = "tok"
    /\ rqGiven.headers = (AuthorizationName :> "old") @@ (HostName :> "evil")
    /\ rqAuth.headers = (AuthorizationName :> "Bearer tok") @@ (HostName :> "evil")
    /\ rqAuthAgain.headers = (AuthorizationName :> "Bearer tok") @@ (HostName :> "evil")
    /\ rqProfile.headers = (AuthorizationName :> "old") @@ (HostName :> "evil")

(***************************************************************************)
(* Properties of buildUrl (checked under SpecRequest)                      *)
(***************************************************************************)
\* a text without its trailing slashes, and without its leading slashes
RECURSIVE DropTrailingSlashes(_)
DropTrailingSlashes(t) ==
    IF t # <<>> /\ t[Len(t)] = "/" THEN DropTrailingSlashes(SubSeq(t, 1, Len(t) - 1))
    ELSE t

RECURSIVE DropLeadingSlashes(_)
DropLeadingSlashes(t) ==
    IF t # <<>> /\ Head(t) = "/" THEN DropLeadingSlashes(Tail(t)) ELSE t

\* the URL text of the payload posted: origin, then the pathname
UrlText == <<rqPayload.url.origin>> \o rqPayload.url.pathname

\* C21: buildUrl, for every non-empty baseUrl ending in "/" and every path:
\* the result has no double slash between base and path, and when path is
\* non-empty the base and the path are separated by exactly one slash.
C21_SingleSlashJoin ==
    (Posted /\ rqGiven.baseUrl # <<>> /\ rqGiven.baseUrl[Len(rqGiven.baseUrl)] = "/") =>
        LET base == DropTrailingSlashes(rqGiven.baseUrl)
            rest == DropLeadingSlashes(rqGiven.path)
            sepLen == Len(UrlText) - Len(base) - Len(rest)
            sep == SubSeq(UrlText, Len(base) + 1, Len(base) + sepLen)
        IN  /\ sepLen >= 0
            /\ SubSeq(UrlText, 1, Len(base)) = base
            /\ SubSeq(UrlText, Len(base) + sepLen + 1, Len(UrlText)) = rest
            /\ sep \in {<<>>, <<"/">>}
            /\ (rqGiven.path # <<>>) => sep = <<"/">>

\* the search parameters of the payload's URL named k
ParamsNamed(k) ==
    {i \in 1..Len(rqPayload.url.search) : rqPayload.url.search[i][1] = k}

\* C22: buildUrl: every query entry whose value is the empty string, null
\* or undefined is absent from the resulting URL's query string, and every
\* other entry appears once with its stringified value.
C22_EmptyQueryOmitted ==
    Posted =>
        /\ \A i \in 1..Len(rqAuth.query) :
                LET k == rqAuth.query[i][1]
                    v == rqAuth.query[i][2]
                IN  IF v \in {Str(""), Null, Undef} THEN ParamsNamed(k) = {}
                    ELSE /\ Cardinality(ParamsNamed(k)) = 1
                         /\ \A j \in ParamsNamed(k) : rqPayload.url.search[j][2] = v.v
        /\ \A j \in 1..Len(rqPayload.url.search) :
                \E i \in 1..Len(rqAuth.query) :
                    rqAuth.query[i][1] = rqPayload.url.search[j][1]

C22_Witness ==
    /\ Posted
    /\ rqGiven.auth.type = "apiKeyQuery"
    /\ rqGiven.auth.apiKey = "secret"
    /\ rqGiven.auth.apiKeyQueryName = ""
    /\ rqGiven.query = << <<"e", Str("")>>, <<"n", Null>>, <<"u", Undef>>,
                          <<"z", Num("0")>>, <<"q", Str("1")>> >>
    /\ rqPayload.url.search = << <<"z", "0">>, <<"q", "1">>, <<"api_key", "secret">> >>

(***************************************************************************)
(* Further properties of POST /api/proxy (checked under SpecProxy)         *)
(***************************************************************************)
\* C23: one invocation of the proxy executor performs exactly one outbound
\* network call when its input parses (as a ProxyRequest), and never more
\* than one on any path: no retry follows a failure, a timeout or a non-2xx
\* reply.
C23_ExactlyOneOutboundCall ==
    /\ Len(pxOutbound) <= 1
    /\ (pxPc # "idle" /\ pxReq.kind = "request") => Len(pxOutbound) = 1
    /\ (pxReq.kind \in {"malformed", "null"}) => pxOutbound = <<>>

C23_Witness ==
    /\ pxPc = "done"
    /\ pxReq.kind = "request"
    /\ pxRemote.finished
    /\ pxRemote.status = 500
    /\ ~pxResult.payload.ok
    /\ Len(pxOutbound) = 1

(***************************************************************************)
(* Further properties of the simulator page (checked under SpecUpsert)     *)
(***************************************************************************)
\* executeUpsert issues a remote write in this step
WriteIssued == ~upExec.active /\ upExec'.active

\* C24: an UpsertPlan is consumed exactly once by the executor: after a
\* plan has been executed with dryRun=false, the same plan cannot be
\* executed again unless planning is run anew, so one create plan never
\* produces two remote create calls.
C24_PlanConsumedOnce ==
    [][upLog.spent => ~WriteIssued]_vars

\* C28: planUpsertContactByEmail is total: for every reply the search call
\* can return (ok or not, any total, results present, empty or missing,
\* first result with or without id and properties) it returns a plan whose
\* action is one of create, update, noop and raises no exception; and every
\* update plan it returns has a defined id.
C28_PlannerTotal ==
    (JustPlanAttempt /\ ~upSearch.rejected) =>
        /\ JustPlanned
        /\ upsertPlan.action \in {"create", "update", "noop"}
        /\ (upsertPlan.action = "update") =>
                /\ upsertPlan.hasId
                /\ upsertPlan.id # Undef

(***************************************************************************)
(* Properties of the dataset's persistence and of the detail requests      *)
(* (checked under Spec)                                                    *)
(***************************************************************************)
\* C25: persistence round-trip: for every BuiltDataset that buildDataset
\* can return (including rows produced by successful detail calls whose
\* reply had no JSON body), saving it under a name in the key-value store
\* and loading it back by that name yields a dataset equal to the saved
\* one, row for row.
C25_PersistenceRoundTrip ==
    (dsLoaded # Undef) =>
        LET rows == Member(dsLoaded, "rows")
        IN  /\ Member(dsLoaded, "sourceName") = Str("New Request")
            /\ rows.kind = "arr"
            /\ Len(rows.elems) = Len(dsResult.rows)
            /\ \A i \in 1..Len(dsResult.rows) : rows.elems[i] = dsResult.rows[i]

\* C26: buildDataset detail-path substitution: for every item whose idPath
\* resolves to a value (whatever that value is) and with idVarName set,
\* every occurrence of {idVarName} in the detail profile's path is replaced
\* by the stringified id in the request issued for that item; the
\* substitution is applied to a fresh clone, so the caller's detailProfile
\* is unchanged and the path used for item i+1 does not depend on the id of
\* item i (an item without id is requested at the path as the caller gave it).
C26_DetailPathSubstitution ==
    \A k \in 2..Len(dsCalls) :
        LET it == dsLimited[k - 1]
        IN  IF dsOpt.idPath = <<"id">> /\ "id" \in KeysOf(it) /\ dsOpt.idVarName = "ID"
            THEN dsCalls[k].path =
                    <<"/v1/users/", Member(it, "id").v, "/x/", Member(it, "id").v>>
            ELSE dsCalls[k].path = <<"/v1/users/", "{ID}", "/x/", "{ID}">>

\* the list reply holds no array under arrayPath
NoArrayAtPath ==
    LET d == dsReplies[1].data
    IN  ~(d.kind = "obj" /\ "results" \in KeysOf(d) /\ Member(d, "results").kind = "arr")

\* C27: buildDataset after a successful list call: whenever the value at
\* arrayPath is missing or is not an array (including a list reply with no
\* JSON body), the dataset has zero rows, no error is raised and no detail
\* request is issued.
C27_NonArrayIsEmpty ==
    (ListSucceeded /\ NoArrayAtPath) =>
        /\ dsPc = "returned"
        /\ dsResult = [kind |-> "dataset", rows |-> <<>>]
        /\ dsCalls = <<[kind |-> "list", path |-> <<"/list">>]>>
        /\ dsInFlight = 0

C27_Witness ==
    /\ dsPc = "returned"
    /\ dsOpt.hasDetail
    /\ dsOpt.hasMax
    /\ dsOpt.maxItems = 2
    /\ dsReplies = <<Reply(TRUE, 200, "OK", Undef)>>
    /\ dsResult.rows = <<>>

(***************************************************************************)
(* Properties of the upsert requests' authentication (checked under        *)
(* SpecRequest)                                                            *)
(***************************************************************************)
\* request r carries the credential of the given profile's auth
CarriesCredential(r) ==
    LET auth == rqGiven.auth
        headerName == IF auth.apiKeyHeaderName = <<>> THEN AuthorizationName
                      ELSE auth.apiKeyHeaderName
        queryName == IF auth.apiKeyQueryName = "" THEN "api_key" ELSE auth.apiKeyQueryName
    IN  CASE auth.type = "apiKeyHeader" /\ auth.apiKey # "" ->
                /\ headerName \in DOMAIN r.headers
                /\ r.headers[headerName] = auth.apiKey
          [] auth.type = "apiKeyQuery" /\ auth.apiKey # "" ->
                \E i \in 1..Len(r.url.search) : r.url.search[i] = <<queryName, auth.apiKey>>
          [] auth.type = "bearer" /\ auth.bearerToken # "" ->
                /\ AuthorizationName \in DOMAIN r.headers
                /\ r.headers[AuthorizationName] = "Bearer " \o auth.bearerToken
          [] OTHER -> TRUE

\* C30: the upsert planner and executor authenticate like the generic
\* runner: for every base profile and every auth type (none, apiKeyHeader,
\* apiKeyQuery, bearer), the headers and URL query of the search, create and
\* update requests carry the same credential that applyAuth and
\* buildProxyPayload would inject for that profile.
C30_UpsertAuthLikeRunner ==
    (rqHub # NoHub /\ rqPc = "forwarded") =>
        /\ CarriesCredential(rqPayload)
        /\ ~rqHub.search.thrown /\ CarriesCredential(rqHub.search)
        /\ ~rqHub.create.thrown /\ CarriesCredential(rqHub.create)
        /\ ~rqHub.update.thrown /\ CarriesCredential(rqHub.update)

(***************************************************************************)
(* Properties of the runner page (checked under SpecRunner)                *)
(***************************************************************************)
\* C29: runner page under overlapping runs: execute can be started again
\* while a previous request is in flight (the form's run button is not
\* gated by loading); for every interleaving of the completions, loading
\* stays true while any request is in flight and the response finally
\* displayed is the one of the most recently started request.
C29_OverlappingRuns ==
    /\ (rnInFlight # {}) => rnLoading
    /\ (rnInFlight = {} /\ rnStarted > 0) => rnResponse.run = rnStarted

====
